---- MODULE Spec2Model ----
(***************************************************************************)
(* ManzAI Studio: topic -> manzai script -> per-line speech synthesis ->   *)
(* stored audio.  The model follows the backend package                   *)
(* src/src/backend/app: services/audio_manager.py (AudioManager),          *)
(* services/voicevox_service.py (VoiceVoxService),                         *)
(* services/ollama_service.py (OllamaService) and routes/api.py (the       *)
(* /api/generate handler).                                                 *)
(*                                                                         *)
(* Text is a sequence of tokens (one-character strings, plus the tokens    *)
(* ".wav" and "```" kept whole); bytes payloads are sequences of numbers;  *)
(* lengths of moras are whole numbers of time units.                       *)
(***************************************************************************)
EXTENDS Integers, Sequences, FiniteSets, TLC

VARIABLES
    files,      \* the audio directory: file name -> [data, ctime]
    now,        \* the clock, in ticks finer than a second
    lastOp,     \* the AudioManager call that completed last, with its outcome
    saved,      \* history: the save_audio calls that returned
    synthIn,    \* a synthesize_voice call: its arguments and what the backend answers
    synth,      \* the outcome of that call
    genIn,      \* a generate_manzai_script call: its arguments and the backend's answers
    gen,        \* the outcome of that call
    app,        \* the services the application object carries
    runs        \* the /api/generate requests: request id -> progress of its handler


-----------------------------------------------------------------------------
(* Bounds of the model *)

MaxTime == 2            \* the clock stops after this many ticks
TicksPerSecond == 2     \* clock ticks within one second of strftime("%S")
MaxSaved == 2           \* save_audio calls explored
MaxKeep == 2            \* largest max_files handed to cleanup_old_files
MaxMoras == 3           \* moras in one audio_query answer
MaxLines == 2           \* entries in the "script" list the language model writes
SampleRate == 4         \* samples in one second of fallback audio (44100 in the code)

-----------------------------------------------------------------------------
(* Values *)

WAV == ".wav"

\* base names a caller may hand to save_audio / get_audio
BaseNames == { <<>>, <<"a">>, <<"a", WAV>>, <<"b">>, <<"d", "/", "a">> }

\* bytes payloads
Blobs == { <<>>, <<1>> }

\* what a caller may hand to save_audio as audio_data
NoneData == [kind |-> "None"]
BytesData(b) == [kind |-> "bytes", bytes |-> b]

-----------------------------------------------------------------------------
(* The file system operations the services use *)

\* open(path, "wb"); f.write(data): creates or truncates, ctime is the time of the write
WriteFile(fs, name, data, t) ==
    [n \in (DOMAIN fs) \cup {name} |->
        IF n = name THEN [data |-> data, ctime |-> t] ELSE fs[n]]

\* os.remove(path)
RemoveFile(fs, name) == [n \in (DOMAIN fs) \ {name} |-> fs[n]]

\* str.endswith(".wav")
EndsWithWav(s) == Len(s) > 0 /\ s[Len(s)] = WAV

\* a path component separator inside a file name: open() then needs a
\* subdirectory, and the program never creates one
HasSeparator(s) == \E i \in 1..Len(s) : s[i] = "/"

-----------------------------------------------------------------------------
(* AudioManager (services/audio_manager.py) *)

SaveResult(ok, error, ret, fs) ==
    [ok |-> ok, error |-> error, ret |-> ret, files |-> fs]

\* the name save_audio writes to and returns; it starts with
\* datetime.now().strftime("%Y%m%d_%H%M%S"), the clock cut to whole seconds
SafeFilename(t, filename) ==
    LET stem == IF EndsWithWav(filename)
                THEN SubSeq(filename, 1, Len(filename) - 1)
                ELSE filename
    IN  <<ToString(t \div TicksPerSecond), "_">> \o stem \o <<WAV>>

save_audio_returns_argument(fs, t, audio_data, filename) ==
    IF audio_data.kind = "None" THEN SaveResult(FALSE, "ValueError", <<>>, fs)
    ELSE IF filename = <<>> THEN SaveResult(FALSE, "ValueError", <<>>, fs)
    ELSE LET safe_filename == SafeFilename(t, filename)
         IN  IF HasSeparator(safe_filename)
             THEN SaveResult(FALSE, "FileNotFoundError", <<>>, fs)
             ELSE IF audio_data.kind # "bytes"
             THEN SaveResult(FALSE, "TypeError", <<>>,
                             WriteFile(fs, safe_filename, <<>>, t))
             ELSE SaveResult(TRUE, "", filename,
                             WriteFile(fs, safe_filename, audio_data.bytes, t))

save_audio(fs, t, audio_data, filename) ==
    IF audio_data.kind = "None" THEN SaveResult(FALSE, "ValueError", <<>>, fs)
    ELSE IF filename = <<>> THEN SaveResult(FALSE, "ValueError", <<>>, fs)
    ELSE LET safe_filename == SafeFilename(t, filename)
         IN  IF HasSeparator(safe_filename)
             \* open() fails: the directory part does not exist
             THEN SaveResult(FALSE, "FileNotFoundError", <<>>, fs)
             ELSE IF audio_data.kind # "bytes"
             \* open() has created the file, f.write() rejects a non-bytes object
             THEN SaveResult(FALSE, "TypeError", <<>>,
                             WriteFile(fs, safe_filename, <<>>, t))
             ELSE SaveResult(TRUE, "", safe_filename,
                             WriteFile(fs, safe_filename, audio_data.bytes, t))

\* a get_audio that looks the name up as it was given
get_audio_as_given(fs, filename) ==
    IF filename \notin DOMAIN fs
    THEN [ok |-> FALSE, error |-> "FileNotFoundError", data |-> <<>>]
    ELSE [ok |-> TRUE, error |-> "", data |-> fs[filename].data]

get_audio(fs, filename) ==
    LET name == IF ~EndsWithWav(filename) THEN filename \o <<WAV>> ELSE filename
    IN  IF name \notin DOMAIN fs
        THEN [ok |-> FALSE, error |-> "FileNotFoundError", data |-> <<>>]
        ELSE [ok |-> TRUE, error |-> "", data |-> fs[name].data]

\* os.listdir(audio_dir): the names, in an order the code does not control
Listings(fs) ==
    LET names == DOMAIN fs
        n == Cardinality(names)
    IN  { l \in [1..n -> names] : \A i, j \in 1..n : i # j => l[i] # l[j] }

\* one step of list.sort(key=os.path.getctime, reverse=True): the sort is
\* stable, so x goes behind every element that is at least as new
InsertNewestFirst(sorted, x, fs) ==
    LET k == Cardinality({ i \in 1..Len(sorted) :
                             fs[sorted[i]].ctime >= fs[x].ctime })
    IN  SubSeq(sorted, 1, k) \o <<x>> \o SubSeq(sorted, k + 1, Len(sorted))

InsertOldestFirst(sorted, x, fs) ==
    LET k == Cardinality({ i \in 1..Len(sorted) :
                             fs[sorted[i]].ctime <= fs[x].ctime })
    IN  SubSeq(sorted, 1, k) \o <<x>> \o SubSeq(sorted, k + 1, Len(sorted))

RECURSIVE SortOldestFirst(_, _)
SortOldestFirst(list, fs) ==
    IF list = <<>> THEN <<>>
    ELSE InsertOldestFirst(SortOldestFirst(SubSeq(list, 1, Len(list) - 1), fs),
                           list[Len(list)], fs)

\* file_paths.sort(key=os.path.getctime, reverse=True)
RECURSIVE SortNewestFirst(_, _)
SortNewestFirst(list, fs) ==
    IF list = <<>> THEN <<>>
    ELSE InsertNewestFirst(SortNewestFirst(SubSeq(list, 1, Len(list) - 1), fs),
                           list[Len(list)], fs)

\* list[n:] of Python, n of either sign
SliceFrom(list, n) ==
    IF n >= 0 THEN SubSeq(list, n + 1, Len(list))
    ELSE IF Len(list) + n < 0 THEN list
    ELSE SubSeq(list, Len(list) + n + 1, Len(list))

\* [f for f in listing if f.endswith(".wav")]
RECURSIVE WavOnly(_)
WavOnly(list) ==
    IF list = <<>> THEN <<>>
    ELSE IF EndsWithWav(Head(list)) THEN <<Head(list)>> \o WavOnly(Tail(list))
    ELSE WavOnly(Tail(list))

CleanupResult(raised, fs, count) ==
    [raised |-> raised, files |-> fs, deleted_count |-> count]

\* the deletion loop without its try/except: the first OSError ends the call
RECURSIVE RemoveLoopNoExcept(_, _, _, _)
RemoveLoopNoExcept(fs, paths, fail, count) ==
    IF paths = <<>> THEN CleanupResult(FALSE, fs, count)
    ELSE IF Head(paths) \in fail
    THEN CleanupResult(TRUE, fs, count)
    ELSE RemoveLoopNoExcept(RemoveFile(fs, Head(paths)), Tail(paths), fail, count + 1)

\* for file_path in file_paths[max_files:]: try os.remove / except OSError.
\* fail: the files whose os.remove raises OSError
RECURSIVE RemoveLoop(_, _, _, _)
RemoveLoop(fs, paths, fail, count) ==
    IF paths = <<>> THEN CleanupResult(FALSE, fs, count)
    ELSE IF Head(paths) \in fail
    THEN RemoveLoop(fs, Tail(paths), fail, count)
    ELSE RemoveLoop(RemoveFile(fs, Head(paths)), Tail(paths), fail, count + 1)

\* file_paths[max_files:] of cleanup_old_files: the files it tries to delete
ToDelete(fs, max_files, listing) ==
    SliceFrom(SortNewestFirst(WavOnly(listing), fs), max_files)

\* the audio directory exists from the constructor on and is never removed,
\* so the early "return 0" for a missing directory is never taken
cleanup_old_files(fs, max_files, listing, fail) ==
    RemoveLoop(fs, ToDelete(fs, max_files, listing), fail, 0)

Range(seq) == { seq[i] : i \in 1..Len(seq) }

-----------------------------------------------------------------------------
(* The VOICEVOX engine as seen by VoiceVoxService *)

\* a JSON member that may be missing, null or a number
Absent == [kind |-> "absent", val |-> 0]
Num(n) == [kind |-> "num", val |-> n]

\* dict.get(key, default): the default stands in for a missing key only
DictGet(member, default) == IF member.kind = "absent" THEN Num(default) ELSE member

\* moras an audio_query answer may hold; the engine sends consonant_length
\* null for a mora without consonant
MoraSamples ==
    { [text |-> <<"k", "o">>, consonant_length |-> Num(1), vowel_length |-> Num(2)],
      [text |-> <<"n">>,      consonant_length |-> [kind |-> "null", val |-> 0],
       vowel_length |-> Num(1)],
      [text |-> <<"a">>,      consonant_length |-> Absent, vowel_length |-> Num(1)],
      [text |-> <<"x">>,      consonant_length |-> Absent, vowel_length |-> Absent],
      [text |-> <<"q">>,      consonant_length |-> Num(0 - 1), vowel_length |-> Num(0)] }

MoraSeqs == UNION { [1..n -> MoraSamples] : n \in 0..MaxMoras }

Phrase(moras) == [has_moras |-> TRUE, moras |-> moras]
Descriptor(phrases) == [has_accent_phrases |-> TRUE, accent_phrases |-> phrases]
NoDescriptor == [has_accent_phrases |-> FALSE, accent_phrases |-> <<>>]

\* audio_query answers: the moras in one accent phrase or split over two,
\* an answer without phrases, without the key, with a phrase without moras
Descriptors ==
    { Descriptor(<<Phrase(m)>>) : m \in MoraSeqs }
    \cup UNION { { Descriptor(<<Phrase(SubSeq(m, 1, k)),
                                 Phrase(SubSeq(m, k + 1, Len(m)))>>) :
                      k \in 0..Len(m) } : m \in MoraSeqs }
    \cup { Descriptor(<<>>), NoDescriptor,
           Descriptor(<<[has_moras |-> FALSE, moras |-> <<>>]>>) }

\* what a request to the engine comes back with
HttpFailures == { "http_error", "connection" }
QueryAnswer(kind, body) == [kind |-> kind, body |-> body]
RenderAnswer(kind, content) == [kind |-> kind, content |-> content]
QueryAnswers(bodies) ==
    { QueryAnswer("ok", d) : d \in bodies }
    \cup { QueryAnswer(k, NoDescriptor) : k \in HttpFailures }

-----------------------------------------------------------------------------
(* VoiceVoxService (services/voicevox_service.py) *)

\* get_fallback_audio: for each of sample_rate * duration samples the two
\* bytes 0x00, 0x80 are appended to an empty bytearray
get_fallback_audio(text) ==
    LET duration == 1
        num_samples == SampleRate * duration
    IN  [i \in 1..(2 * num_samples) |-> IF i % 2 = 1 THEN 0 ELSE 128]

\* a request posted to the engine: audio_query with params text and speaker,
\* synthesis with param speaker and the descriptor as its JSON body
Posted(path, text, speaker, body) ==
    [path |-> path, text |-> text, speaker |-> speaker, body |-> body]

\* get_timing_data: one audio_query request
get_timing_data(text, speaker_id, query) ==
    IF text = <<>> THEN
        [ok |-> FALSE, error |-> "ValueError", value |-> NoDescriptor, requests |-> <<>>]
    ELSE IF speaker_id < 0 THEN
        [ok |-> FALSE, error |-> "ValueError", value |-> NoDescriptor, requests |-> <<>>]
    ELSE IF query.kind # "ok" THEN
        [ok |-> FALSE, error |-> "VoiceVoxServiceError", value |-> NoDescriptor,
         requests |-> <<Posted("audio_query", text, speaker_id, NoDescriptor)>>]
    ELSE [ok |-> TRUE, error |-> "", value |-> query.body,
          requests |-> <<Posted("audio_query", text, speaker_id, NoDescriptor)>>]

\* a generate_voice that posts the synthesis request whatever audio_query
\* answered
generate_voice_renders_anyway(text, speaker_id, query, render) ==
    IF text = <<>> THEN
        [ok |-> FALSE, error |-> "ValueError", content |-> <<>>, requests |-> <<>>]
    ELSE IF speaker_id < 0 THEN
        [ok |-> FALSE, error |-> "ValueError", content |-> <<>>, requests |-> <<>>]
    ELSE IF query.kind # "ok" \/ render.kind # "ok" THEN
        [ok |-> FALSE, error |-> "VoiceVoxServiceError", content |-> <<>>,
         requests |-> <<Posted("audio_query", text, speaker_id, NoDescriptor),
                        Posted("synthesis", <<>>, speaker_id, query.body)>>]
    ELSE [ok |-> TRUE, error |-> "", content |-> render.content,
          requests |-> <<Posted("audio_query", text, speaker_id, NoDescriptor),
                         Posted("synthesis", <<>>, speaker_id, query.body)>>]

\* generate_voice: an audio_query request, then a synthesis request with its answer
generate_voice(text, speaker_id, query, render) ==
    IF text = <<>> THEN
        [ok |-> FALSE, error |-> "ValueError", content |-> <<>>, requests |-> <<>>]
    ELSE IF speaker_id < 0 THEN
        [ok |-> FALSE, error |-> "ValueError", content |-> <<>>, requests |-> <<>>]
    ELSE IF query.kind # "ok" THEN
        [ok |-> FALSE, error |-> "VoiceVoxServiceError", content |-> <<>>,
         requests |-> <<Posted("audio_query", text, speaker_id, NoDescriptor)>>]
    ELSE IF render.kind # "ok" THEN
        [ok |-> FALSE, error |-> "VoiceVoxServiceError", content |-> <<>>,
         requests |-> <<Posted("audio_query", text, speaker_id, NoDescriptor),
                        Posted("synthesis", <<>>, speaker_id, query.body)>>]
    ELSE [ok |-> TRUE, error |-> "", content |-> render.content,
          requests |-> <<Posted("audio_query", text, speaker_id, NoDescriptor),
                         Posted("synthesis", <<>>, speaker_id, query.body)>>]

\* for phrase in accent_phrases: for mora in phrase.get("moras", [])
RECURSIVE FlattenMoras(_)
FlattenMoras(phrases) ==
    IF phrases = <<>> THEN <<>>
    ELSE (IF Head(phrases).has_moras THEN Head(phrases).moras ELSE <<>>)
         \o FlattenMoras(Tail(phrases))

MoraLengths(mora) ==
    [consonant_length |-> DictGet(mora.consonant_length, 0),
     vowel_length |-> DictGet(mora.vowel_length, 0)]

\* SpeechTimingData(start_time=0.0, end_time=consonant_length + vowel_length,
\*                  phoneme="", text=mora_text)
TimingEntry(mora) ==
    [start_time |-> 0,
     end_time |-> MoraLengths(mora).consonant_length.val
                  + MoraLengths(mora).vowel_length.val,
     phoneme |-> <<>>,
     text |-> mora.text]

\* what building the entry of one mora raises, "" when it is built:
\* consonant_length + vowel_length raises TypeError when one of them is None,
\* SpeechTimingData.time_must_be_positive raises ValueError for v < 0
MoraFault(mora) ==
    IF \/ MoraLengths(mora).consonant_length.kind = "null"
       \/ MoraLengths(mora).vowel_length.kind = "null"
    THEN "TypeError"
    ELSE IF TimingEntry(mora).start_time < 0 \/ TimingEntry(mora).end_time < 0
    THEN "ValidationError"
    ELSE ""

\* the loop over the moras ends at the first entry that cannot be built
RECURSIVE FirstFault(_)
FirstFault(moras) ==
    IF moras = <<>> THEN ""
    ELSE IF MoraFault(Head(moras)) # "" THEN MoraFault(Head(moras))
    ELSE FirstFault(Tail(moras))

\* sum(td.end_time for td in timing_data)
RECURSIVE SumEndTimes(_)
SumEndTimes(timing_data) ==
    IF timing_data = <<>> THEN 0
    ELSE Head(timing_data).end_time + SumEndTimes(Tail(timing_data))

SynthFailure(error, fs, requests) ==
    [ok |-> FALSE, error |-> error,
     result |-> [file_path |-> <<>>, timing_data |-> <<>>, duration |-> 0,
                 text |-> <<>>, speaker_id |-> 0],
     files |-> fs, requests |-> requests]

\* f"{self.output_dir}/synthesized_{uuid.uuid4().hex[:8]}.wav", as a name in
\* the audio directory (output_dir is the directory AudioManager uses)
SynthesizedName(uuid) == <<"synthesized_", uuid, WAV>>

\* synthesize_voice: timing from the first audio_query, audio from
\* generate_voice (a second audio_query and the synthesis), then the file
synthesize_voice(fs, t, text, speaker_id, query1, query2, render, uuid) ==
    LET timing_data_raw == get_timing_data(text, speaker_id, query1)
        audio_data == generate_voice(text, speaker_id, query2, render)
        moras == IF timing_data_raw.value.has_accent_phrases
                 THEN FlattenMoras(timing_data_raw.value.accent_phrases)
                 ELSE <<>>
        timing_data == [i \in 1..Len(moras) |-> TimingEntry(moras[i])]
        requests == timing_data_raw.requests \o audio_data.requests
    IN  IF ~timing_data_raw.ok
        THEN SynthFailure(timing_data_raw.error, fs, timing_data_raw.requests)
        ELSE IF ~audio_data.ok
        THEN SynthFailure(audio_data.error, fs, requests)
        ELSE IF FirstFault(moras) # ""
        THEN SynthFailure(FirstFault(moras), fs, requests)
        ELSE [ok |-> TRUE, error |-> "",
              result |-> [file_path |-> SynthesizedName(uuid),
                          timing_data |-> timing_data,
                          duration |-> SumEndTimes(timing_data),
                          text |-> text,
                          speaker_id |-> speaker_id],
              files |-> WriteFile(fs, SynthesizedName(uuid), audio_data.content, t),
              requests |-> requests]


\* uuid4 draws: a name no file of the directory carries yet
FreshUuids(fs) == { u \in { "u1", "u2" } : SynthesizedName(u) \notin DOMAIN fs }

-----------------------------------------------------------------------------
(* Text operations of Python's str, over sequences of tokens *)

Whitespace == { " ", "\n" }
\* the code fence, three backquotes, kept whole as one token
FENCE == "<fence>"

RECURSIVE LStrip(_)
LStrip(s) == IF s # <<>> /\ Head(s) \in Whitespace THEN LStrip(Tail(s)) ELSE s

RECURSIVE RStrip(_)
RStrip(s) ==
    IF s # <<>> /\ s[Len(s)] \in Whitespace
    THEN RStrip(SubSeq(s, 1, Len(s) - 1))
    ELSE s

\* str.strip()
Strip(s) == RStrip(LStrip(s))

\* the positions at which sub occurs in s
Occurrences(s, sub) ==
    { i \in 1..(Len(s) - Len(sub) + 1) : SubSeq(s, i, i + Len(sub) - 1) = sub }

\* sub in s
Contains(s, sub) == Occurrences(s, sub) # {}

\* str.find / str.rfind, counting positions from 1; 0 when sub does not occur
Find(s, sub) ==
    LET first(positions) ==
            IF positions = {} THEN 0
            ELSE CHOOSE i \in positions : \A j \in positions : i <= j
    IN  first(Occurrences(s, sub))
RFind(s, sub) ==
    LET last(positions) ==
            IF positions = {} THEN 0
            ELSE CHOOSE i \in positions : \A j \in positions : i >= j
    IN  last(Occurrences(s, sub))

\* str.split(sep, 1)
SplitOnce(s, sep) ==
    LET cut_at(at) ==
            IF at = 0 THEN <<s>>
            ELSE <<SubSeq(s, 1, at - 1), SubSeq(s, at + Len(sep), Len(s))>>
    IN  cut_at(Find(s, sep))

\* str.split(sep)
RECURSIVE Split(_, _)
Split(s, sep) ==
    LET more(parts) ==
            IF Len(parts) = 1 THEN parts ELSE <<parts[1]>> \o Split(parts[2], sep)
    IN  more(SplitOnce(s, sep))

-----------------------------------------------------------------------------
(* JSON values, json.loads and the text of a JSON value *)

JStr(s) == [type |-> "str", s |-> s]
JNum == [type |-> "num"]
JNull == [type |-> "null"]
JList(items) == [type |-> "list", items |-> items]
JDict(members) == [type |-> "dict", members |-> members]
Member(key, value) == [key |-> key, value |-> value]

QUOTE == "\""

\* inside a string literal a line break is written as the escape \n
Escape(s) == [i \in 1..Len(s) |-> IF s[i] = "\n" THEN "\\n" ELSE s[i]]
Unescape(s) == [i \in 1..Len(s) |-> IF s[i] = "\\n" THEN "\n" ELSE s[i]]

NoParse == [ok |-> FALSE, value |-> JNull, rest |-> <<>>]
Parsed(value, rest) == [ok |-> TRUE, value |-> value, rest |-> rest]

\* a string literal, read from behind its opening quote up to the closing
\* one; a raw line break inside it is a control character json.loads rejects
ParseString(s) ==
    LET up_to(close) ==
            IF close = 0 THEN NoParse
            ELSE IF \E i \in 1..(close - 1) : s[i] = "\n" THEN NoParse
            ELSE Parsed(JStr(Unescape(SubSeq(s, 1, close - 1))),
                        SubSeq(s, close + 1, Len(s)))
    IN  up_to(Find(s, <<QUOTE>>))

RECURSIVE ParseValue(_), ParseItems(_, _), ParseMembers(_, _)

\* the items of an array, from behind "[" or ","
ParseItems(text, acc) ==
    LET more(s, items) ==
            IF s = <<>> THEN NoParse
            ELSE IF Head(s) = "," THEN ParseItems(Tail(s), items)
            ELSE IF Head(s) = "]" THEN Parsed(JList(items), Tail(s))
            ELSE NoParse
        item(v) ==
            IF ~v.ok THEN NoParse ELSE more(LStrip(v.rest), Append(acc, v.value))
    IN  item(ParseValue(text))

\* the members of an object, from behind "{" or ","
ParseMembers(text, acc) ==
    LET more(s, members) ==
            IF s = <<>> THEN NoParse
            ELSE IF Head(s) = "," THEN ParseMembers(Tail(s), members)
            ELSE IF Head(s) = "}" THEN Parsed(JDict(members), Tail(s))
            ELSE NoParse
        member(key, v) ==
            IF ~v.ok THEN NoParse
            ELSE more(LStrip(v.rest), Append(acc, Member(key, v.value)))
        colon(key, s) ==
            IF s # <<>> /\ Head(s) = ":" THEN member(key, ParseValue(Tail(s)))
            ELSE NoParse
        named(k) ==
            IF ~k.ok THEN NoParse ELSE colon(k.value.s, LStrip(k.rest))
        key_at(s) ==
            IF s # <<>> /\ Head(s) = QUOTE THEN named(ParseString(Tail(s)))
            ELSE NoParse
    IN  key_at(LStrip(text))

ParseValue(text) ==
    LET list_at(s) ==
            IF s # <<>> /\ Head(s) = "]" THEN Parsed(JList(<<>>), Tail(s))
            ELSE ParseItems(s, <<>>)
        dict_at(s) ==
            IF s # <<>> /\ Head(s) = "}" THEN Parsed(JDict(<<>>), Tail(s))
            ELSE ParseMembers(s, <<>>)
        value_at(s) ==
            IF s = <<>> THEN NoParse
            ELSE IF Head(s) = QUOTE THEN ParseString(Tail(s))
            ELSE IF Head(s) = "7" THEN Parsed(JNum, Tail(s))
            ELSE IF Head(s) = "null" THEN Parsed(JNull, Tail(s))
            ELSE IF Head(s) = "[" THEN list_at(LStrip(Tail(s)))
            ELSE IF Head(s) = "{" THEN dict_at(LStrip(Tail(s)))
            ELSE NoParse
    IN  value_at(LStrip(text))

\* json.loads: one value and nothing but white space after it
json_loads(text) ==
    LET whole(parsed) ==
            IF parsed.ok /\ LStrip(parsed.rest) = <<>>
            THEN [ok |-> TRUE, value |-> parsed.value]
            ELSE [ok |-> FALSE, value |-> JNull]
    IN  whole(ParseValue(text))

\* the text of a JSON value, as json.dumps writes it
RECURSIVE Render(_), RenderItems(_), RenderMembers(_)

Render(v) ==
    IF v.type = "str" THEN <<QUOTE>> \o Escape(v.s) \o <<QUOTE>>
    ELSE IF v.type = "num" THEN <<"7">>
    ELSE IF v.type = "null" THEN <<"null">>
    ELSE IF v.type = "list" THEN <<"[">> \o RenderItems(v.items) \o <<"]">>
    ELSE <<"{">> \o RenderMembers(v.members) \o <<"}">>

RenderItems(items) ==
    IF items = <<>> THEN <<>>
    ELSE Render(Head(items)) \o
         (IF Tail(items) = <<>> THEN <<>> ELSE <<",", " ">> \o RenderItems(Tail(items)))

RenderMembers(members) ==
    IF members = <<>> THEN <<>>
    ELSE <<QUOTE>> \o Escape(Head(members).key) \o <<QUOTE, ":", " ">> \o
         Render(Head(members).value) \o
         (IF Tail(members) = <<>> THEN <<>>
          ELSE <<",", " ">> \o RenderMembers(Tail(members)))

\* key in data, data[key] and isinstance for a parsed object
HasKey(d, key) == \E i \in 1..Len(d.members) : d.members[i].key = key
GetItem(d, key) ==
    d.members[CHOOSE i \in 1..Len(d.members) :
                  /\ d.members[i].key = key
                  /\ \A j \in (i + 1)..Len(d.members) : d.members[j].key # key].value

-----------------------------------------------------------------------------
(* The Ollama backend as seen by OllamaClient *)

\* the model-listing endpoints, in the order check_ollama_availability tries them
Endpoints == <<"api/tags", "api/models">>

\* what one endpoint answers: "models" is a 200 whose body holds a list of
\* model descriptors, "no_models" a 200 whose body holds none, "bad_entry" a
\* list with an entry that is no object; the other kinds are failures of the
\* request or of response.json()
EndpointAnswer(kind, names) == [kind |-> kind, names |-> names]
EndpointAnswers ==
    { EndpointAnswer("models", names) : names \in { <<>>, <<"m1">>, <<"m1", "m2">> } }
        \cup { EndpointAnswer("no_models", <<>>) }
        \cup { EndpointAnswer(kind, <<>>) :
                 kind \in { "connection", "timeout", "http_error", "bad_json",
                            "bad_entry" } }
Probes == [1..Len(Endpoints) -> EndpointAnswers]

PostRequest(model_name) == [method |-> "POST", path |-> "api/generate", model |-> model_name]
GetRequests(n) == [i \in 1..n |-> [method |-> "GET", path |-> Endpoints[i], model |-> ""]]

NoError == [endpoint |-> "", cause |-> ""]

\* the loop with an error that is recorded once and never replaced
RECURSIVE ProbeFromKeepsFirstError(_, _, _)
ProbeFromKeepsFirstError(probe, i, last_error) ==
    IF i > Len(Endpoints)
    THEN [available |-> FALSE, models |-> <<>>,
          error |-> IF last_error = NoError
                    THEN [endpoint |-> "", cause |-> "All endpoints failed"]
                    ELSE last_error,
          requests |-> GetRequests(Len(Endpoints))]
    ELSE IF probe[i].kind = "models"
    THEN [available |-> TRUE, models |-> probe[i].names, error |-> NoError,
          requests |-> GetRequests(i)]
    ELSE IF probe[i].kind = "no_models" \/ last_error # NoError
    THEN ProbeFromKeepsFirstError(probe, i + 1, last_error)
    ELSE ProbeFromKeepsFirstError(probe, i + 1,
                                  [endpoint |-> Endpoints[i], cause |-> probe[i].kind])

\* the loop of check_ollama_availability from endpoint i on
RECURSIVE ProbeFrom(_, _, _)
ProbeFrom(probe, i, last_error) ==
    IF i > Len(Endpoints)
    THEN [available |-> FALSE, models |-> <<>>,
          error |-> IF last_error = NoError
                    THEN [endpoint |-> "", cause |-> "All endpoints failed"]
                    ELSE last_error,
          requests |-> GetRequests(Len(Endpoints))]
    ELSE IF probe[i].kind = "models"
    THEN [available |-> TRUE, models |-> probe[i].names, error |-> NoError,
          requests |-> GetRequests(i)]
    ELSE IF probe[i].kind = "no_models"
    THEN ProbeFrom(probe, i + 1, last_error)
    ELSE ProbeFrom(probe, i + 1, [endpoint |-> Endpoints[i], cause |-> probe[i].kind])

\* a check_ollama_availability without the default "All endpoints failed"
check_ollama_availability_no_default(probe) ==
    LET result == ProbeFrom(probe, 1, NoError)
    IN  IF ~result.available /\ result.error.endpoint = ""
        THEN [result EXCEPT !.error = NoError]
        ELSE result

check_ollama_availability(probe) == ProbeFrom(probe, 1, NoError)

\* OllamaService.perform_health_check
perform_health_check(probe) ==
    LET health(availability) ==
            [status |-> IF availability.available THEN "healthy" ELSE "unhealthy",
             available_models |-> IF availability.available THEN availability.models
                                  ELSE <<>>,
             error |-> IF availability.available THEN NoError ELSE availability.error,
             requests |-> availability.requests]
    IN  health(check_ollama_availability(probe))

\* what a call hands back: a value, or an exception with its class, the kind
\* of its message and the probe error it carries; requests is what was sent
Return(value, requests) ==
    [ok |-> TRUE, error |-> "", message |-> "", carried |-> NoError,
     value |-> value, requests |-> requests]
Raise(error, message, carried, requests) ==
    [ok |-> FALSE, error |-> error, message |-> message, carried |-> carried,
     value |-> JNull, requests |-> requests]

\* answers to POST api/generate: failures of the request, a body that is no
\* object, a body with an "error" member, a body without "response", or a
\* body whose "response" member is the given JSON value
PostAnswer(kind, value) == [kind |-> kind, value |-> value]
PostFailures == { "connection", "timeout", "http_error", "bad_json", "not_object", "error_member" }

\* model_name in the list of names
Lists(models, model_name) == \E i \in 1..Len(models) : models[i] = model_name

\* generate_text_sync without the check of the model against the list
generate_text_sync_posts_unlisted(model_name, probe, post) ==
    LET text(status) ==
            IF ~status.available
            THEN Raise("OllamaServiceError", "server not available", status.error,
                       status.requests)
            ELSE IF post.kind \in PostFailures
            THEN Raise("OllamaServiceError", post.kind, NoError,
                       Append(status.requests, PostRequest(model_name)))
            ELSE IF post.kind = "no_response"
            THEN Return(JStr(<<>>), Append(status.requests, PostRequest(model_name)))
            ELSE Return(post.value, Append(status.requests, PostRequest(model_name)))
    IN  text(check_ollama_availability(probe))

\* OllamaClient.generate_text_sync
generate_text_sync(model_name, probe, post) ==
    LET text(status) ==
            IF ~status.available
            THEN Raise("OllamaServiceError", "server not available", status.error,
                       status.requests)
            ELSE IF ~Lists(status.models, model_name)
            THEN Raise("OllamaServiceError", "model not available", NoError,
                       status.requests)
            ELSE IF post.kind \in PostFailures
            THEN Raise("OllamaServiceError", post.kind, NoError,
                       Append(status.requests, PostRequest(model_name)))
            ELSE IF post.kind = "no_response"
            THEN Return(JStr(<<>>), Append(status.requests, PostRequest(model_name)))
            ELSE Return(post.value, Append(status.requests, PostRequest(model_name)))
    IN  text(check_ollama_availability(probe))

\* OllamaClient._extract_json_block: parts is text.split("```json", 1),
\* start and end are text.find("{") and text.rfind("}")
extract_json_block(text) ==
    LET block(parts, start, end) ==
            IF Len(parts) = 2 /\ Contains(parts[2], <<FENCE>>)
            THEN [ok |-> TRUE, block |-> Strip(SplitOnce(parts[2], <<FENCE>>)[1])]
            ELSE IF start # 0 /\ end # 0 /\ start < end
            THEN [ok |-> TRUE, block |-> SubSeq(text, start, end)]
            ELSE IF json_loads(text).ok
            THEN [ok |-> TRUE, block |-> text]
            ELSE [ok |-> FALSE, block |-> <<>>]
    IN  block(SplitOnce(text, <<FENCE, "json">>), Find(text, <<"{">>),
              RFind(text, <<"}">>))

\* OllamaClient.generate_json_sync
generate_json_sync(model_name, probe, post) ==
    LET loaded(json_data, requests) ==
            IF ~json_data.ok
            THEN Raise("OllamaServiceError", "JSON parse", NoError, requests)
            ELSE Return(json_data.value, requests)
        extracted(json_block, requests) ==
            IF ~json_block.ok
            THEN Raise("OllamaServiceError", "no JSON block", NoError, requests)
            ELSE loaded(json_loads(json_block.block), requests)
        generated(raw) ==
            IF ~raw.ok THEN raw
            ELSE IF raw.value.type # "str"
            THEN Raise("TypeError", "response is no text", NoError, raw.requests)
            ELSE extracted(extract_json_block(raw.value.s), raw.requests)
    IN  generated(generate_text_sync(model_name, probe, post))

-----------------------------------------------------------------------------
(* OllamaService: from the backend's answer to a script *)

TSUKKOMI == "tsukkomi"
BOKE == "boke"

\* an entry of data["script"] the loop skips before looking at its values
NotAnEntry(item) ==
    item.type # "dict" \/ ~HasKey(item, <<"speaker">>) \/ ~HasKey(item, <<"text">>)

\* a line of the given speaker, unless speaker or text is blank:
\* ScriptLine(role=Role.TSUKKOMI if speaker == "A" else Role.BOKE, text=text),
\* whose text validator strips the text
LineOf(speaker, text) ==
    IF speaker = <<>> \/ text = <<>> THEN <<>>
    ELSE <<[role |-> IF speaker = <<"A">> THEN TSUKKOMI ELSE BOKE,
            text |-> Strip(text)]>>

\* the entries of data["script"] that become lines, in order
RECURSIVE EntryLines(_)
EntryLines(items) ==
    LET line_of(item) ==
            IF NotAnEntry(item) THEN <<>>
            ELSE LineOf(Strip(GetItem(item, <<"speaker">>).s),
                        Strip(GetItem(item, <<"text">>).s))
    IN  IF items = <<>> THEN <<>>
        ELSE line_of(Head(items)) \o EntryLines(Tail(items))

\* the first block inside code fences that is not blank, stripped; the text
\* itself when there is none
RECURSIVE FirstFencedBlock(_, _, _)
FirstFencedBlock(blocks, i, text) ==
    IF i > Len(blocks) THEN text
    ELSE IF i % 2 = 0 /\ Strip(blocks[i]) # <<>> THEN Strip(blocks[i])
    ELSE FirstFencedBlock(blocks, i + 1, text)

\* [line.strip() for line in text.split("\n") if line.strip()]
RECURSIVE StrippedLines(_)
StrippedLines(lines) ==
    IF lines = <<>> THEN <<>>
    ELSE IF Strip(Head(lines)) = <<>> THEN StrippedLines(Tail(lines))
    ELSE <<Strip(Head(lines))>> \o StrippedLines(Tail(lines))

\* the loop over the text lines "<speaker>: <content>"
RECURSIVE LineItems(_)
LineItems(lines) ==
    LET parted(parts) == LineOf(Strip(parts[1]), Strip(parts[2]))
        line_of(line) ==
            IF ~Contains(line, <<":">>) THEN <<>>
            ELSE parted(SplitOnce(line, <<":">>))
    IN  IF lines = <<>> THEN <<>>
        ELSE line_of(Head(lines)) \o LineItems(Tail(lines))

\* _parse_manzai_script on what is no list: text with lines, or a value
\* that has no "in" or no split(); the lines are taken from the first block
\* inside code fences, if there is one
ParseText(text) ==
    LET lines_of(body) == LineItems(StrippedLines(Split(body, <<"\n">>)))
    IN  IF text.type \in { "num", "null" }
        THEN Raise("TypeError", "in", NoError, <<>>)
        ELSE IF text.type # "str"
        THEN Raise("AttributeError", "split", NoError, <<>>)
        ELSE Return(lines_of(IF Contains(text.s, <<FENCE>>)
                             THEN FirstFencedBlock(Split(text.s, <<FENCE>>), 1, text.s)
                             ELSE text.s), <<>>)

\* OllamaService._parse_manzai_script
parse_manzai_script(data) ==
    LET \* item["speaker"].strip() or item["text"].strip() on a value
        \* without strip()
        raises(item) ==
            /\ ~NotAnEntry(item)
            /\ \/ GetItem(item, <<"speaker">>).type # "str"
               \/ GetItem(item, <<"text">>).type # "str"
        parsed(script_data) ==
            IF script_data.type # "list" THEN ParseText(script_data)
            ELSE IF \E i \in 1..Len(script_data.items) :
                        raises(script_data.items[i])
            THEN Raise("AttributeError", "strip", NoError, <<>>)
            ELSE Return(EntryLines(script_data.items), <<>>)
    IN  IF data.type # "dict" THEN ParseText(data)
        ELSE IF ~HasKey(data, <<"script">>)
        THEN Raise("OllamaServiceError", "Script not found", NoError, <<>>)
        ELSE parsed(GetItem(data, <<"script">>))

\* OllamaService.generate_manzai_script; template is the outcome of
\* PromptLoader.load_template("manzai_prompt", topic=topic): the prompt, or
\* the exception for a missing template or one str.format cannot fill
generate_manzai_script(topic, model_name, probe1, template, probe2, post) ==
    LET parsed(script, sent) ==
            IF ~script.ok
            THEN Raise("OllamaServiceError", script.message, NoError, sent)
            ELSE Return(script.value, sent)
        answered(json_response, sent) ==
            IF ~json_response.ok
            THEN Raise("OllamaServiceError", json_response.message,
                       json_response.carried, sent \o json_response.requests)
            ELSE parsed(parse_manzai_script(json_response.value),
                        sent \o json_response.requests)
        checked(health_check) ==
            IF health_check.status = "unhealthy"
            THEN Raise("OllamaServiceError", "server not available",
                       health_check.error, health_check.requests)
            ELSE IF ~Lists(health_check.available_models, model_name)
            THEN Raise("OllamaServiceError", "model not available", NoError,
                       health_check.requests)
            ELSE IF template # "prompt"
            THEN Raise(template, "template", NoError, health_check.requests)
            ELSE answered(generate_json_sync(model_name, probe2, post),
                          health_check.requests)
    IN  IF topic = <<>>
        THEN Raise("ValueError", "Topic cannot be empty", NoError, <<>>)
        ELSE checked(perform_health_check(probe1))

\* a get_fallback_response whose apology does not name the topic
get_fallback_response_fixed(topic) ==
    LineOf(<<"A">>, <<"<sorry>", "<not generated>">>)
        \o LineOf(<<"B">>, <<"<try later>">>)

\* OllamaService.get_fallback_response: two ScriptLine objects, the first of
\* Role.TSUKKOMI with the topic inside its sentence; the fixed sentences
\* ("sorry.", "could not generate a manzai about ... ." and "let us try again
\* later.") are kept as one token each
get_fallback_response(topic) ==
    LineOf(<<"A">>, <<"<sorry>">> \o topic \o <<"<not generated>">>)
        \o LineOf(<<"B">>, <<"<try later>">>)

-----------------------------------------------------------------------------
(* What generate_manzai_script is called with, and what the backend answers *)

Topics == { <<>>, <<" ">>, <<"h">> }
ModelIds == { "m1", "m2" }

\* an entry {"speaker": ..., "text": ...} of the "script" list
Entry(speaker, text) ==
    JDict(<<Member(<<"speaker">>, JStr(speaker)), Member(<<"text">>, JStr(text))>>)

\* entries the language model may write: well formed ones, ones with blank
\* members, and ones that are no entry at all
EntrySamples ==
    { Entry(<<"A">>, <<"h">>), Entry(<<"B">>, <<"h">>), Entry(<<"C">>, <<"h">>),
      Entry(<<" ", "A">>, <<"h", " ">>), Entry(<<>>, <<"h">>), Entry(<<"A">>, <<" ">>),
      JStr(<<"h">>),
      JDict(<<Member(<<"speaker">>, JStr(<<"A">>))>>),
      JDict(<<Member(<<"speaker">>, JNum), Member(<<"text">>, JStr(<<"h">>))>>) }

ScriptObject(script) == JDict(<<Member(<<"script">>, script)>>)

\* dialogue written as lines of text
LineTexts ==
    { <<"A", ":", " ", "h", "\n", "B", ":", " ", "h">>,
      <<"B", ":", "h", "\n", "\n", "h", "\n", " ", "A", " ", ":", "h", ":", "h">>,
      <<"C", ":", "h">>, <<"h">>, <<"A", ":", " ">>, <<>>,
      <<"h", "\n", FENCE, "\n", "A", ":", "h", "\n", FENCE>> }

\* what the response may hold as JSON: script objects with up to MaxLines
\* entries, one whose text shows a code fence, dialogue as a JSON string, and
\* values that are no script object
JsonBodies ==
    { ScriptObject(JList(entries)) :
        entries \in UNION { [1..n -> EntrySamples] : n \in 0..MaxLines } }
        \cup { ScriptObject(JStr(text)) : text \in LineTexts }
        \cup { JStr(text) : text \in LineTexts }
        \cup { ScriptObject(JList(<<Entry(<<"A">>, <<"h", FENCE, "h">>)>>)) }
        \cup { ScriptObject(JNum), ScriptObject(JNull), ScriptObject(JDict(<<>>)),
               JDict(<<Member(<<"text">>, JStr(<<"h">>))>>), JDict(<<>>),
               JList(<<Entry(<<"A">>, <<"h">>)>>), JList(<<>>), JNum, JNull }

\* how the language model wraps the JSON it writes
Fenced(body) == <<FENCE, "json", "\n">> \o body \o <<"\n", FENCE>>
Wrappings(body) ==
    { body,
      Fenced(body),
      <<"h", "\n">> \o Fenced(body) \o <<"\n", "h">>,
      <<"h", " ">> \o body \o <<" ", "h">>,
      <<FENCE, "json", "\n">> \o body,
      <<"{", "h", "}", " ">> \o body }

PostAnswers ==
    { PostAnswer(kind, JNull) : kind \in PostFailures \cup { "no_response" } }
        \cup { PostAnswer("response", JStr(text)) :
                 text \in UNION { Wrappings(Render(body)) : body \in JsonBodies }
                            \cup LineTexts
                            \cup { <<"{">>, <<"}", "{">>, <<"{", "}">>,
                                   <<FENCE, "json", FENCE>> } }
        \cup { PostAnswer("response", JNum) }

\* a backend that lists m1 on the first endpoint and answers with a script
GoodProbe == <<EndpointAnswer("models", <<"m1">>), EndpointAnswer("connection", <<>>)>>
GoodPost ==
    PostAnswer("response",
               JStr(Render(ScriptObject(JList(<<Entry(<<"A">>, <<"h">>),
                                                Entry(<<"B">>, <<"h">>)>>)))))

GenInput(topic, model_name, probe1, template, probe2, post) ==
    [topic |-> topic, model_name |-> model_name, probe1 |-> probe1,
     template |-> template, probe2 |-> probe2, post |-> post]

\* the calls explored: every argument and first probe with a good answer,
\* every second probe, and every answer to the generation request
GenInputs ==
    { GenInput(topic, model_name, probe1, template, GoodProbe, GoodPost) :
        topic \in Topics, model_name \in ModelIds, probe1 \in Probes,
        template \in { "prompt", "PromptTemplateNotFoundError", "ValueError" } }
    \cup { GenInput(<<"h">>, model_name, GoodProbe, "prompt", probe2, GoodPost) :
             model_name \in ModelIds, probe2 \in Probes }
    \cup { GenInput(topic, "m1", GoodProbe, "prompt", GoodProbe, post) :
             topic \in Topics \ { <<>> }, post \in PostAnswers }

-----------------------------------------------------------------------------
(* routes/api.py: the /api/generate handler *)

\* str.upper() of a role value
Upper(role) ==
    IF role = TSUKKOMI THEN "TSUKKOMI" ELSE IF role = BOKE THEN "BOKE" ELSE role

\* f"script_{i}"
ScriptName(i) == <<"script_", ToString(i)>>

\* the exception a response reports: str(e) of what was raised
Cause(error, message) == [error |-> error, message |-> message]
NoCause == Cause("", "")

\* the JSON body and status the handler answers with
Response(status, kind, error, cause, script) ==
    [status |-> status, kind |-> kind, error |-> error, cause |-> cause,
     script |-> script]

NoRaise == [at |-> 0 - 1, stage |-> "", error |-> ""]
Raised(at, stage, error) == [at |-> at, stage |-> stage, error |-> error]

\* progress of one request: where the handler stands, the script it got, the
\* loop index, the entries built, the synthesize_voice calls made so far, the
\* exception that ended it and the response sent; audio keeps the values
\* audio_bytes had in the rounds that added an entry
Run(pc, request, script_lines, i, script_dict, calls, raised, response) ==
    [pc |-> pc, request |-> request, script_lines |-> script_lines, i |-> i,
     script_dict |-> script_dict, calls |-> calls, raised |-> raised,
     response |-> response, audio |-> <<>>]

Answered(request, response) ==
    Run("done", request, <<>>, 0, <<>>, <<>>, NoRaise, response)

\* a handler that answers a failed generation with the fixed lines of the
\* use_mock branch
generate_begin_falls_back(request, script) ==
  LET mock_script(topic) ==
          <<[role |-> "tsukkomi", text |-> <<"mock_0:">> \o topic],
            [role |-> "boke", text |-> topic \o <<":mock_1">>],
            [role |-> "tsukkomi", text |-> <<"mock_2">>],
            [role |-> "boke", text |-> <<"mock_3">>]>>
  IN
    IF ~request.has_topic
    THEN Answered(request, Response(400, "error", "Topic is required", NoCause, <<>>))
    ELSE IF Strip(request.topic) = <<>>
    THEN Answered(request, Response(400, "error", "topic cannot be empty", NoCause, <<>>))
    ELSE IF request.use_mock \/ ~script.ok
    THEN Answered(request, Response(200, "mock", "", NoCause,
                                    mock_script(Strip(request.topic))))
    ELSE Run("loop", request, script.value, 0, <<>>, <<>>, NoRaise,
             Response(0, "", "", NoCause, <<>>))

\* generate(), up to the loop: the request is checked, then the script is
\* asked for; script is what generate_manzai_script hands back
generate_begin(request, script) ==
  LET \* the four fixed lines of the use_mock branch, built around the topic
      mock_script(topic) ==
          <<[role |-> "tsukkomi", text |-> <<"mock_0:">> \o topic],
            [role |-> "boke", text |-> topic \o <<":mock_1">>],
            [role |-> "tsukkomi", text |-> <<"mock_2">>],
            [role |-> "boke", text |-> <<"mock_3">>]>>
  IN
    IF ~request.has_topic
    THEN Answered(request, Response(400, "error", "Topic is required", NoCause, <<>>))
    ELSE IF Strip(request.topic) = <<>>
    THEN Answered(request, Response(400, "error", "topic cannot be empty", NoCause, <<>>))
    ELSE IF request.use_mock
    THEN Answered(request, Response(200, "mock", "", NoCause,
                                    mock_script(Strip(request.topic))))
    ELSE IF ~script.ok
    THEN Run("done", request, <<>>, 0, <<>>, <<>>,
             Raised(0 - 1, "generate_manzai_script", script.error),
             Response(500, "error", "Failed to generate script",
                      Cause(script.error, script.message), <<>>))
    ELSE Run("loop", request, script.value, 0, <<>>, <<>>, NoRaise,
             Response(0, "", "", NoCause, <<>>))

\* the except clause of generate(): the request ends with APIError 500
Abort(r, calls, stage, error) ==
    [r EXCEPT !.pc = "done", !.calls = calls,
              !.raised = Raised(r.i, stage, error),
              !.response = Response(500, "error", "Failed to generate script",
                                    Cause(error, ""), <<>>)]

\* synthesize_voice(line.text, 1 if line.role.value == "tsukkomi" else 2)
LineCall(line) ==
    [text |-> line.text, speaker_id |-> IF line.role = TSUKKOMI THEN 1 ELSE 2]

LineEntry(line, audio_filename) ==
    [role |-> Upper(line.role), text |-> line.text, audio_file |-> audio_filename]

\* a loop that carries on with the next line after a failed synthesis
generate_line_keeps_going(r, t, voice) ==
    LET line == r.script_lines[r.i + 1]
        calls == Append(r.calls, LineCall(line))
        stored == save_audio(voice.files, t, voice.payload, ScriptName(r.i))
    IN  IF ~voice.ok
        THEN [run |-> [r EXCEPT !.i = r.i + 1, !.calls = calls,
                                !.raised = Raised(r.i, "synthesize_voice", voice.error)],
              files |-> voice.files]
        ELSE IF ~stored.ok
        THEN [run |-> Abort(r, calls, "save_audio", stored.error),
              files |-> stored.files]
        ELSE [run |-> [r EXCEPT !.i = r.i + 1, !.calls = calls,
                                !.script_dict =
                                    Append(r.script_dict, LineEntry(line, stored.ret))],
              files |-> stored.files]

\* a loop that puts each new entry in front of the earlier ones
generate_line_prepends(r, t, voice) ==
    LET line == r.script_lines[r.i + 1]
        calls == Append(r.calls, LineCall(line))
        stored == save_audio(voice.files, t, voice.payload, ScriptName(r.i))
    IN  IF ~voice.ok
        THEN [run |-> Abort(r, calls, "synthesize_voice", voice.error),
              files |-> voice.files]
        ELSE IF ~stored.ok
        THEN [run |-> Abort(r, calls, "save_audio", stored.error),
              files |-> stored.files]
        ELSE [run |-> [r EXCEPT !.i = r.i + 1, !.calls = calls,
                                !.script_dict =
                                    <<LineEntry(line, stored.ret)>> \o r.script_dict],
              files |-> stored.files]

\* one round of the loop of generate(): voice is what synthesize_voice hands
\* back for line i (and the directory it leaves), t the time of the round
generate_line(r, t, voice) ==
    LET line == r.script_lines[r.i + 1]
        calls == Append(r.calls, LineCall(line))
        stored == save_audio(voice.files, t, voice.payload, ScriptName(r.i))
    IN  IF ~voice.ok
        THEN [run |-> Abort(r, calls, "synthesize_voice", voice.error),
              files |-> voice.files]
        ELSE IF ~stored.ok
        THEN [run |-> Abort(r, calls, "save_audio", stored.error),
              files |-> stored.files]
        ELSE [run |-> [r EXCEPT !.i = r.i + 1, !.calls = calls,
                                !.script_dict =
                                    Append(r.script_dict, LineEntry(line, stored.ret)),
                                !.audio = Append(r.audio, voice.payload)],
              files |-> stored.files]

\* return jsonify({"script": script_dict})
generate_return(r) ==
    [r EXCEPT !.pc = "done",
              !.response = Response(200, "script", "", NoCause, r.script_dict)]

-----------------------------------------------------------------------------
(* Actions *)

\* the services right after construction: an empty audio directory
InitStore ==
    /\ files = [n \in {} |-> [data |-> <<>>, ctime |-> 0]]
    /\ now = 0
    /\ lastOp = [op |-> "none"]
    /\ saved = <<>>

InitSynthIdle ==
    /\ synthIn = [text |-> <<>>, speaker_id |-> 0,
                  query1 |-> QueryAnswer("connection", NoDescriptor),
                  query2 |-> QueryAnswer("connection", NoDescriptor),
                  render |-> RenderAnswer("connection", <<>>)]
    /\ synth = [op |-> "none"]

InitGenIdle ==
    /\ genIn = GenInput(<<>>, "", GoodProbe, "prompt", GoodProbe, GoodPost)
    /\ gen = [op |-> "none"]

\* no request has come in yet
RunIds == { "r1", "r2" }
IdleRun == [pc |-> "idle"]

InitRunIdle ==
    /\ app = [voicevox_service |-> "VoiceVoxService"]
    /\ runs = [id \in RunIds |-> IdleRun]

Init ==
    /\ InitStore
    /\ InitSynthIdle
    /\ InitGenIdle
    /\ InitRunIdle

Tick ==
    /\ now < MaxTime
    /\ now' = now + 1
    /\ UNCHANGED <<files, lastOp, saved>>
    /\ UNCHANGED <<synthIn, synth, genIn, gen, app, runs>>

Save ==
    \E audio_data \in {NoneData} \cup { BytesData(b) : b \in Blobs },
       filename \in BaseNames :
        LET r == save_audio(files, now, audio_data, filename)
        IN  /\ Len(saved) < MaxSaved
            /\ files' = r.files
            /\ lastOp' = [op |-> "save", audio_data |-> audio_data,
                          filename |-> filename, ok |-> r.ok,
                          error |-> r.error, ret |-> r.ret]
            /\ saved' = IF r.ok
                        THEN Append(saved, [ret |-> r.ret, data |-> audio_data.bytes,
                                            on_disk |-> TRUE])
                        ELSE saved
            /\ UNCHANGED now
            /\ UNCHANGED <<synthIn, synth, genIn, gen, app, runs>>

\* get_audio is asked for stored names, with and without the extension, and
\* for names that were never stored
Get ==
    \E filename \in BaseNames \cup DOMAIN files
                       \cup { SubSeq(n, 1, Len(n) - 1) : n \in DOMAIN files } :
        LET r == get_audio(files, filename)
        IN  /\ lastOp' = [op |-> "get", filename |-> filename, ok |-> r.ok,
                          error |-> r.error, data |-> r.data]
            /\ UNCHANGED <<files, now, saved>>
            /\ UNCHANGED <<synthIn, synth, genIn, gen, app, runs>>

Cleanup ==
    \E max_files \in (0 - 1)..MaxKeep, listing \in Listings(files) :
      \E fail \in SUBSET Range(ToDelete(files, max_files, listing)) :
        LET r == cleanup_old_files(files, max_files, listing, fail)
        IN  /\ files' = r.files
            /\ lastOp' = [op |-> "cleanup", max_files |-> max_files,
                          before |-> files,
                          to_delete |-> ToDelete(files, max_files, listing),
                          fail |-> fail, raised |-> r.raised,
                          deleted_count |-> r.deleted_count]
            /\ saved' = [i \in 1..Len(saved) |->
                            [saved[i] EXCEPT !.on_disk = saved[i].on_disk
                                                /\ saved[i].ret \in DOMAIN r.files]]
            /\ UNCHANGED now
            /\ UNCHANGED <<synthIn, synth, genIn, gen, app, runs>>

Next == Tick \/ Save \/ Get \/ Cleanup

vars == <<files, now, lastOp, saved, synthIn, synth, genIn, gen, app, runs>>

Spec == Init /\ [][Next]_vars

-----------------------------------------------------------------------------
(* One synthesize_voice call, for every answer of the engine *)

\* what synthesize_voice is called with and what the engine answers; query2
\* is the answer to the second audio_query, the one generate_voice sends
SynthInputs ==
    [text : { <<>>, <<"x">> }, speaker_id : (0 - 1)..1,
     query1 : QueryAnswers(Descriptors),
     query2 : QueryAnswers(
        { Descriptor(<<>>),
          Descriptor(<<Phrase(<<[text |-> <<"a">>, consonant_length |-> Absent,
                                 vowel_length |-> Num(1)]>>)>>) }),
     render : { RenderAnswer("ok", b) : b \in Blobs }
                \cup { RenderAnswer(k, <<>>) : k \in HttpFailures }]

InitSynth ==
    /\ InitStore
    /\ InitGenIdle
    /\ InitRunIdle
    /\ synthIn \in SynthInputs
    /\ synth = [op |-> "none"]

SynthesizeVoice ==
    \E uuid \in FreshUuids(files) :
        LET r == synthesize_voice(files, now, synthIn.text, synthIn.speaker_id,
                                  synthIn.query1, synthIn.query2, synthIn.render,
                                  uuid)
        IN  /\ synth' = [op |-> "synthesize_voice", ok |-> r.ok, error |-> r.error,
                         result |-> r.result, requests |-> r.requests]
            /\ files' = r.files
            /\ UNCHANGED <<now, lastOp, saved, synthIn>>
            /\ UNCHANGED <<genIn, gen, app, runs>>

\* one generate_voice call, with the first answer of the engine to audio_query
GenerateVoice ==
    LET r == generate_voice(synthIn.text, synthIn.speaker_id, synthIn.query1,
                            synthIn.render)
    IN  /\ synth' = [op |-> "generate_voice", ok |-> r.ok, error |-> r.error,
                     content |-> r.content, requests |-> r.requests]
        /\ UNCHANGED <<files, now, lastOp, saved, synthIn, genIn, gen, app, runs>>

\* one get_timing_data call
GetTimingData ==
    LET r == get_timing_data(synthIn.text, synthIn.speaker_id, synthIn.query1)
    IN  /\ synth' = [op |-> "get_timing_data", ok |-> r.ok, error |-> r.error,
                     value |-> r.value, requests |-> r.requests]
        /\ UNCHANGED <<files, now, lastOp, saved, synthIn, genIn, gen, app, runs>>

\* one get_fallback_audio call
GetFallbackAudio ==
    /\ synth' = [op |-> "get_fallback_audio", ok |-> TRUE, error |-> "",
                 content |-> get_fallback_audio(synthIn.text), requests |-> <<>>]
    /\ UNCHANGED <<files, now, lastOp, saved, synthIn, genIn, gen, app, runs>>

NextSynth == SynthesizeVoice \/ GenerateVoice \/ GetTimingData \/ GetFallbackAudio

SpecSynth == InitSynth /\ [][NextSynth]_vars

-----------------------------------------------------------------------------
(* One generate_manzai_script call, for every answer of the backend *)

InitGen ==
    /\ InitStore
    /\ InitSynthIdle
    /\ InitRunIdle
    /\ genIn \in GenInputs
    /\ gen = [op |-> "none"]

GenerateManzaiScript ==
    LET outcome(r) ==
            [op |-> "generate_manzai_script", ok |-> r.ok, error |-> r.error,
             message |-> r.message, carried |-> r.carried,
             script |-> IF r.ok THEN r.value ELSE <<>>, requests |-> r.requests]
    IN  /\ gen.op = "none"
        /\ gen' = outcome(generate_manzai_script(genIn.topic, genIn.model_name,
                                                 genIn.probe1, genIn.template,
                                                 genIn.probe2, genIn.post))
        /\ UNCHANGED <<files, now, lastOp, saved, synthIn, synth, genIn, app, runs>>

\* one get_fallback_response call, before or after the generation
GetFallbackResponse ==
    /\ gen' = [op |-> "get_fallback_response", ok |-> TRUE, error |-> "",
               message |-> "", carried |-> NoError,
               script |-> get_fallback_response(genIn.topic), requests |-> <<>>]
    /\ UNCHANGED <<files, now, lastOp, saved, synthIn, synth, genIn, app, runs>>

\* one check_ollama_availability call: it returns its status dictionary
CheckOllamaAvailability ==
    /\ gen' = [op |-> "check_ollama_availability", ok |-> TRUE,
               status |-> check_ollama_availability(genIn.probe1)]
    /\ UNCHANGED <<files, now, lastOp, saved, synthIn, synth, genIn, app, runs>>

NextGen == GenerateManzaiScript \/ GetFallbackResponse \/ CheckOllamaAvailability

SpecGen == InitGen /\ [][NextGen]_vars

-----------------------------------------------------------------------------
(* /api/generate requests, each handler advancing round by round *)

Request(has_topic, topic, model, use_mock) ==
    [has_topic |-> has_topic, topic |-> topic, model |-> model, use_mock |-> use_mock]

RunRequests ==
    { Request(FALSE, <<>>, "m1", FALSE), Request(TRUE, <<" ">>, "m1", FALSE),
      Request(TRUE, <<"h">>, "m1", TRUE), Request(TRUE, <<" ", "h">>, "m1", FALSE),
      Request(TRUE, <<"h">>, "m2", FALSE) }

\* what the Ollama backend answers during a request
RunPosts ==
    { PostAnswer("response",
                 JStr(Render(ScriptObject(JList(<<Entry(<<"A">>, <<"h">>),
                                                  Entry(<<"B">>, <<"h">>),
                                                  Entry(<<"B">>, <<"h", "h">>)>>))))),
      PostAnswer("response",
                 JStr(Render(ScriptObject(JList(<<Entry(<<>>, <<"h">>),
                                                  Entry(<<"B">>, <<"h">>)>>))))),
      PostAnswer("response", JStr(Render(ScriptObject(JList(<<>>))))),
      PostAnswer("response", JStr(<<"h">>)),
      PostAnswer("timeout", JNull) }

\* the model-listing endpoints during a request: up, or down
RunProbes ==
    { GoodProbe,
      <<EndpointAnswer("connection", <<>>), EndpointAnswer("timeout", <<>>)>> }

\* what the VOICEVOX engine answers during a request
RunQueries ==
    { QueryAnswer("ok", Descriptor(<<Phrase(<<[text |-> <<"a">>,
                                               consonant_length |-> Absent,
                                               vowel_length |-> Num(1)]>>)>>)),
      QueryAnswer("connection", NoDescriptor) }

\* what current_app.voicevox_service.synthesize_voice hands to the handler:
\* the AudioSynthesisResult of VoiceVoxService, or, with the stand-in the API
\* tests install, bytes or a VoiceVoxServiceError
Voice(ok, error, payload, fs) ==
    [ok |-> ok, error |-> error, payload |-> payload, files |-> fs]

VoiceOutcomes(service, fs, t, call) ==
    LET voice(r) ==
            Voice(r.ok, r.error,
                  [kind |-> "AudioSynthesisResult", result |-> r.result], r.files)
    IN  IF service = "VoiceVoxService"
        THEN { voice(synthesize_voice(fs, t, call.text, call.speaker_id,
                                      query1, query2, render, uuid)) :
                 query1 \in RunQueries, query2 \in RunQueries,
                 render \in { RenderAnswer("ok", <<1>>),
                              RenderAnswer("http_error", <<>>) },
                 uuid \in FreshUuids(fs) }
        ELSE { Voice(TRUE, "", BytesData(b), fs) : b \in Blobs }
                 \cup { Voice(FALSE, "VoiceVoxServiceError", NoneData, fs) }

InitRun ==
    /\ InitStore
    /\ InitSynthIdle
    /\ InitGenIdle
    /\ app \in [voicevox_service : { "VoiceVoxService", "stand-in" }]
    /\ runs = [id \in RunIds |-> IdleRun]

RunStart(id) ==
    \E request \in RunRequests, probe \in RunProbes, post \in RunPosts :
        /\ runs[id].pc = "idle"
        /\ runs' = [runs EXCEPT ![id] =
                generate_begin(request,
                    generate_manzai_script(Strip(request.topic), request.model,
                                           probe, "prompt", probe, post))]
        /\ UNCHANGED <<files, now, lastOp, saved, synthIn, synth, genIn, gen, app>>

RunLine(id) ==
    /\ runs[id].pc = "loop"
    /\ runs[id].i < Len(runs[id].script_lines)
    /\ \E voice \in VoiceOutcomes(app.voicevox_service, files, now,
                                   LineCall(runs[id].script_lines[runs[id].i + 1])) :
          LET round == generate_line(runs[id], now, voice)
          IN  /\ runs' = [runs EXCEPT ![id] = round.run]
              /\ files' = round.files
    /\ UNCHANGED <<now, lastOp, saved, synthIn, synth, genIn, gen, app>>

RunReturn(id) ==
    /\ runs[id].pc = "loop"
    /\ runs[id].i = Len(runs[id].script_lines)
    /\ runs' = [runs EXCEPT ![id] = generate_return(runs[id])]
    /\ UNCHANGED <<files, now, lastOp, saved, synthIn, synth, genIn, gen, app>>

NextRun ==
    \/ Tick
    \/ \E id \in RunIds : RunStart(id)
    \/ \E id \in RunIds : RunLine(id)
    \/ \E id \in RunIds : RunReturn(id)

SpecRun == InitRun /\ [][NextRun]_vars

-----------------------------------------------------------------------------
(* One call of a service, request by request, against an engine that may    *)
(* stay silent                                                               *)

\* requests.post / requests.get without a timeout argument wait without limit
NoTimeout == 0

\* what a call does next after the answers it has had so far ("ok", "error"
\* or "timeout"): send a request, return or raise
Continue(op, hist) ==
    LET send(path, timeout) == [do |-> "send", path |-> path, timeout |-> timeout]
        end(do) == [do |-> do, path |-> "", timeout |-> NoTimeout]
        \* requests in order; the first answer that is not "ok" raises
        inOrder(plan) ==
            IF \E i \in 1..Len(hist) : hist[i] # "ok" THEN end("raise")
            ELSE IF Len(hist) < Len(plan) THEN plan[Len(hist) + 1]
            ELSE end("return")
        \* check_ollama_availability: api/tags, then api/models if that failed
        probe(h) ==
            IF h = <<>> THEN [do |-> "send", used |-> 0, path |-> Endpoints[1]]
            ELSE IF h[1] = "ok" THEN [do |-> "done", used |-> 1, path |-> ""]
            ELSE IF Len(h) = 1 THEN [do |-> "send", used |-> 1, path |-> Endpoints[2]]
            ELSE IF h[2] = "ok" THEN [do |-> "done", used |-> 2, path |-> ""]
            ELSE [do |-> "raise", used |-> 2, path |-> ""]
        rest(h, n) == SubSeq(h, n + 1, Len(h))
        \* generate_text_sync: the probe again, then the POST
        text_sync(h) ==
            LET p == probe(h)
            IN  IF p.do = "send" THEN send(p.path, 5)
                ELSE IF p.do = "raise" THEN end("raise")
                ELSE IF rest(h, p.used) = <<>> THEN send("api/generate", 60)
                ELSE IF rest(h, p.used)[1] = "ok" THEN end("return")
                ELSE end("raise")
        \* generate_manzai_script: perform_health_check, then generate_json_sync
        script(h) ==
            LET p == probe(h)
            IN  IF p.do = "send" THEN send(p.path, 5)
                ELSE IF p.do = "raise" THEN end("raise")
                ELSE text_sync(rest(h, p.used))
    IN  CASE op = "generate_manzai_script" -> script(hist)
          [] op = "get_timing_data" -> inOrder(<<send("audio_query", NoTimeout)>>)
          [] op = "generate_voice" ->
                inOrder(<<send("audio_query", 30), send("synthesis", 30)>>)
          [] op = "synthesize_voice" ->
                inOrder(<<send("audio_query", NoTimeout), send("audio_query", 30),
                          send("synthesis", 30)>>)
          [] op = "get_speakers" -> inOrder(<<send("speakers", NoTimeout)>>)

\* one of the calls that send requests, with input that passes its
\* validation; the engine answers its i-th request with "ok" or "error", or
\* stays "silent"; a call sends at most five requests
InitCall ==
    /\ InitStore
    /\ InitGenIdle
    /\ InitRunIdle
    /\ synthIn \in [op : { "generate_manzai_script", "get_timing_data",
                          "generate_voice", "synthesize_voice", "get_speakers" },
                    engine : [1..5 -> { "ok", "error", "silent" }]]
    /\ synth = [op |-> "call", pc |-> "running", hist |-> <<>>,
                path |-> "", timeout |-> NoTimeout]

\* the state of the call after one more answer
AfterAnswer(answer) ==
    LET hist == Append(synth.hist, answer)
        step == Continue(synthIn.op, hist)
    IN  [synth EXCEPT !.hist = hist,
                      !.pc = IF step.do = "return" THEN "returned"
                             ELSE IF step.do = "raise" THEN "raised"
                             ELSE "running"]

\* the call sends its next request and waits for the answer
Send ==
    LET step == Continue(synthIn.op, synth.hist)
    IN  /\ synth.pc = "running"
        /\ step.do = "send"
        /\ synth' = [synth EXCEPT !.pc = "waiting", !.path = step.path,
                                  !.timeout = step.timeout]
        /\ UNCHANGED <<files, now, lastOp, saved, synthIn, genIn, gen, app, runs>>

\* the engine answers the request the call waits for
Respond ==
    /\ synth.pc = "waiting"
    /\ synthIn.engine[Len(synth.hist) + 1] # "silent"
    /\ synth' = AfterAnswer(synthIn.engine[Len(synth.hist) + 1])
    /\ UNCHANGED <<files, now, lastOp, saved, synthIn, genIn, gen, app, runs>>

\* the engine stays silent and the timeout of the request runs out:
\* requests raises Timeout
Expire ==
    /\ synth.pc = "waiting"
    /\ synthIn.engine[Len(synth.hist) + 1] = "silent"
    /\ synth.timeout # NoTimeout
    /\ synth' = AfterAnswer("timeout")
    /\ UNCHANGED <<files, now, lastOp, saved, synthIn, genIn, gen, app, runs>>

NextCall == Send \/ Respond \/ Expire

\* the caller's thread runs, an engine that answers does answer, and time passes
SpecCall == InitCall /\ [][NextCall]_vars /\ WF_vars(NextCall)

-----------------------------------------------------------------------------
(* Two cleanup_old_files calls on one audio directory, step by step *)

\* the directory holds the files of earlier save_audio calls; no call has begun
InitClean ==
    /\ InitSynthIdle
    /\ InitGenIdle
    /\ now = MaxTime
    /\ lastOp = [op |-> "none"]
    /\ app = [voicevox_service |-> "VoiceVoxService"]
    /\ runs = [id \in RunIds |-> IdleRun]
    /\ \E n \in 0..(MaxSaved + 1) :
          LET name(i) == <<ToString(i), WAV>>
          IN  /\ saved = [i \in 1..n |-> [ret |-> name(i), data |-> <<>>,
                                          on_disk |-> TRUE]]
              /\ files = [f \in { name(i) : i \in 1..n } |->
                            [data |-> <<>>,
                             ctime |-> (CHOOSE i \in 1..n : name(i) = f) \div 2]]

\* files = [f for f in os.listdir(self.audio_dir) if f.endswith(".wav")]
CleanList(id) ==
    \E max_files \in 0..MaxKeep, listing \in Listings(files) :
        /\ runs[id].pc = "idle"
        /\ runs' = [runs EXCEPT ![id] =
                [pc |-> "sort", max_files |-> max_files, listed |-> WavOnly(listing),
                 paths |-> <<>>, deleted_count |-> 0, raised |-> ""]]
        /\ UNCHANGED <<files, now, lastOp, saved, synthIn, synth, genIn, gen, app>>

\* file_paths.sort(key=os.path.getctime, reverse=True): os.path.getctime
\* raises FileNotFoundError for a listed file that is no longer there, and
\* nothing catches it; otherwise the call goes on with file_paths[max_files:],
\* and returns at once when that is empty
CleanSort(id) ==
    LET r == runs[id]
        paths == ToDelete(files, r.max_files, r.listed)
    IN  /\ r.pc = "sort"
        /\ runs' = [runs EXCEPT ![id] =
                IF \E i \in 1..Len(r.listed) : r.listed[i] \notin DOMAIN files
                THEN [r EXCEPT !.pc = "done", !.raised = "FileNotFoundError"]
                ELSE [r EXCEPT !.pc = IF paths = <<>> THEN "done" ELSE "remove",
                               !.paths = paths]]
        /\ UNCHANGED <<files, now, lastOp, saved, synthIn, synth, genIn, gen, app>>

\* one round of the deletion loop: os.remove, counted, or its OSError for a
\* file that is no longer there, caught; the call returns deleted_count
\* after the last round
CleanRemove(id) ==
    LET r == runs[id]
        path == Head(r.paths)
        pc == IF Tail(r.paths) = <<>> THEN "done" ELSE "remove"
    IN  /\ r.pc = "remove"
        /\ IF path \in DOMAIN files
           THEN /\ files' = RemoveFile(files, path)
                /\ runs' = [runs EXCEPT ![id] =
                        [r EXCEPT !.pc = pc, !.paths = Tail(r.paths),
                                  !.deleted_count = r.deleted_count + 1]]
           ELSE /\ files' = files
                /\ runs' = [runs EXCEPT ![id] =
                        [r EXCEPT !.pc = pc, !.paths = Tail(r.paths)]]
        /\ UNCHANGED <<now, lastOp, saved, synthIn, synth, genIn, gen, app>>

NextClean == \E id \in RunIds : CleanList(id) \/ CleanSort(id) \/ CleanRemove(id)

SpecClean == InitClean /\ [][NextClean]_vars

-----------------------------------------------------------------------------
(* Claims about the AudioManager, checked under Spec *)

\* C1: any two save_audio calls that returned gave distinct file names, and
\* get_audio of each returned name yields the bytes handed to that call
\* (neither call overwrote the other's file).
C1_SavesNeverCollide ==
    \A i, j \in 1..Len(saved) :
        (saved[i].on_disk /\ saved[j].on_disk) =>
            /\ (i # j => saved[i].ret # saved[j].ret)
            /\ get_audio(files, saved[i].ret).ok
            /\ get_audio(files, saved[i].ret).data = saved[i].data

CleanupApplies ==
    /\ lastOp.op = "cleanup"
    /\ lastOp.max_files >= 0
    /\ lastOp.max_files < Cardinality(DOMAIN lastOp.before)

\* exactly N files are left, untouched, and none of them is older than a
\* file that was deleted
LeavesNewest ==
    /\ Cardinality(DOMAIN files) = lastOp.max_files
    /\ DOMAIN files \subseteq DOMAIN lastOp.before
    /\ \A k \in DOMAIN files :
          /\ files[k] = lastOp.before[k]
          /\ \A d \in (DOMAIN lastOp.before) \ (DOMAIN files) :
                lastOp.before[k].ctime >= lastOp.before[d].ctime

C8_CleanupSurvivesRemoveFailure ==
    lastOp.op = "cleanup" =>
        /\ ~lastOp.raised
        /\ \A f \in Range(lastOp.to_delete) :
              f \in DOMAIN files <=> f \in lastOp.fail
        /\ lastOp.deleted_count =
              Cardinality(DOMAIN lastOp.before) - Cardinality(DOMAIN files)

C8_Witness ==
    /\ lastOp.op = "cleanup"
    /\ \E i, j \in 1..Len(lastOp.to_delete) :
          /\ i < j
          /\ lastOp.to_delete[i] \in lastOp.fail
          /\ lastOp.to_delete[j] \notin lastOp.fail
          /\ lastOp.to_delete[j] \notin DOMAIN files
    /\ lastOp.deleted_count > 0

\* C9: get_audio(save_audio(b, n)) returns b, for a name n with or without
\* the ".wav" extension.
C9_SaveGetRoundTrip ==
    (lastOp.op = "save" /\ lastOp.ok) =>
        get_audio(files, lastOp.ret) =
            [ok |-> TRUE, error |-> "", data |-> lastOp.audio_data.bytes]

C9_Witness ==
    /\ lastOp.op = "save"
    /\ lastOp.ok
    /\ EndsWithWav(lastOp.filename)
    /\ lastOp.audio_data.bytes # <<>>
    /\ Cardinality(DOMAIN files) > 1

\* C22: get_audio called with a name that lacks the ".wav" extension reads
\* the stored file of the name with the extension; when that file does not
\* exist it raises FileNotFoundError; a get_audio call, failed or not, leaves
\* the stored files and their contents as they were.
C22_GetResolvesExtension ==
    [][(lastOp'.op = "get" /\ lastOp' # lastOp) =>
          LET given == lastOp'.filename
              full == IF EndsWithWav(given) THEN given ELSE given \o <<WAV>>
          IN  /\ full \in DOMAIN files =>
                    /\ lastOp'.ok
                    /\ lastOp'.data = files[full].data
              /\ full \notin DOMAIN files =>
                    /\ ~lastOp'.ok
                    /\ lastOp'.error = "FileNotFoundError"
              /\ files' = files]_vars

\* a stored file with content was read under its name without the extension
C22_Witness ==
    /\ lastOp.op = "get"
    /\ ~EndsWithWav(lastOp.filename)
    /\ lastOp.ok
    /\ lastOp.data = <<1>>
    /\ lastOp.filename \o <<WAV>> \in DOMAIN files

-----------------------------------------------------------------------------
(* Claims about synthesize_voice, checked under SpecSynth *)

\* the moras of the descriptor the timing was taken from
QueriedMoras ==
    IF synthIn.query1.body.has_accent_phrases
    THEN FlattenMoras(synthIn.query1.body.accent_phrases)
    ELSE <<>>

Synthesized == synth.op = "synthesize_voice" /\ synth.ok

\* C4: for a descriptor of k moras synthesize_voice yields k timing entries
\* in descriptor order, the first starting at 0 and each further one
\* starting where the one before it ended.
C4_TimingIsContiguous ==
    Synthesized =>
        LET timing == synth.result.timing_data
        IN  /\ Len(timing) = Len(QueriedMoras)
            /\ \A i \in 1..Len(timing) :
                  /\ timing[i].text = QueriedMoras[i].text
                  /\ timing[i].start_time =
                        IF i = 1 THEN 0 ELSE timing[i - 1].end_time

\* C5: every timing entry synthesize_voice yields has start_time >= 0 and
\* end_time > start_time.
C5_TimingEntriesArePositive ==
    Synthesized =>
        \A i \in 1..Len(synth.result.timing_data) :
            /\ synth.result.timing_data[i].start_time >= 0
            /\ synth.result.timing_data[i].end_time
                  > synth.result.timing_data[i].start_time

\* C6: the duration of the result is the end_time of its last timing entry.
C6_DurationIsLastEndTime ==
    (Synthesized /\ synth.result.timing_data # <<>>) =>
        synth.result.duration =
            synth.result.timing_data[Len(synth.result.timing_data)].end_time

\* C19: generate_voice posts the audio_query request first and the synthesis
\* request second; the synthesis request carries the descriptor audio_query
\* answered with and the same speaker; it is not posted when audio_query
\* failed; a call that returns has posted exactly these two requests and
\* returns the body of the synthesis answer.
C19_QueryThenRender ==
    synth.op = "generate_voice" =>
        /\ Len(synth.requests) <= 2
        /\ Len(synth.requests) >= 1 =>
              synth.requests[1] = Posted("audio_query", synthIn.text,
                                         synthIn.speaker_id, NoDescriptor)
        /\ Len(synth.requests) = 2 =>
              /\ synthIn.query1.kind = "ok"
              /\ synth.requests[2] = Posted("synthesis", <<>>, synthIn.speaker_id,
                                            synthIn.query1.body)
        /\ synthIn.query1.kind # "ok" =>
              /\ ~synth.ok
              /\ \A i \in 1..Len(synth.requests) : synth.requests[i].path # "synthesis"
        /\ synth.ok =>
              /\ Len(synth.requests) = 2
              /\ synthIn.render.kind = "ok"
              /\ synth.content = synthIn.render.content

\* a call that returned the bytes of the synthesis answer for a descriptor
\* with moras
C19_Witness ==
    /\ synth.op = "generate_voice"
    /\ synth.ok
    /\ synth.content = <<1>>
    /\ Len(synth.requests) = 2
    /\ synth.requests[2].body.accent_phrases # <<>>
    /\ synth.requests[2].speaker = 1

\* C20: get_timing_data and generate_voice raise the validation error
\* (ValueError) when the text is empty or the speaker id is not positive, and
\* have then posted no request to the engine.
C20_InvalidInputIsRejectedFirst ==
    (/\ synth.op \in { "get_timing_data", "generate_voice" }
     /\ (synthIn.text = <<>> \/ synthIn.speaker_id <= 0)) =>
        /\ ~synth.ok
        /\ synth.error = "ValueError"
        /\ synth.requests = <<>>

\* C24: get_fallback_audio returns the same bytes for every text, the bytes
\* of a silent waveform of fixed length in the container format of the
\* engine's answers: they begin with the four bytes "RIFF" of a WAV header
\* (82, 73, 70, 70), followed by the samples.
C24_FallbackAudioIsWav ==
    synth.op = "get_fallback_audio" =>
        /\ synth.ok
        /\ \A text \in { <<>>, <<"x">> } : synth.content = get_fallback_audio(text)
        /\ Len(synth.content) > 4
        /\ SubSeq(synth.content, 1, 4) = <<82, 73, 70, 70>>

\* C30: the timing sequence of a synthesize_voice result is derived from the
\* descriptor that was rendered into its audio (the body of the synthesis
\* request), also when the engine answers the audio_query requests for the
\* same text and speaker with different descriptors.
C30_TimingIsOfTheRenderedDescriptor ==
    Synthesized =>
        \A k \in 1..Len(synth.requests) :
            synth.requests[k].path = "synthesis" =>
                LET rendered == synth.requests[k].body
                    moras == IF rendered.has_accent_phrases
                             THEN FlattenMoras(rendered.accent_phrases)
                             ELSE <<>>
                    timing_data == synth.result.timing_data
                IN  /\ Len(timing_data) = Len(moras)
                    /\ \A i \in 1..Len(moras) :
                          timing_data[i] = TimingEntry(moras[i])

-----------------------------------------------------------------------------
(* Claims about script generation, checked under SpecGen *)

Generated == gen.op = "generate_manzai_script" /\ gen.ok

\* C10: generate_manzai_script never returns successfully with an empty
\* script: whenever it returns, the script has at least one line and the
\* text of every line is non-empty (a backend answer without a usable line
\* makes it fail instead).
C10_GenerateNeverReturnsEmptyScript ==
    Generated =>
        /\ Len(gen.script) >= 1
        /\ \A i \in 1..Len(gen.script) : gen.script[i].text # <<>>

\* the call reached the extraction: the generation request was answered with
\* raw text
Extracting ==
    /\ gen.op = "generate_manzai_script"
    /\ genIn.post.kind = "response"
    /\ genIn.post.value.type = "str"
    /\ \E i \in 1..Len(gen.requests) : gen.requests[i].method = "POST"

\* the lines a text yields when it is read as the structured object
\* { script: [ {speaker, text}, ... ] }; none when it is no such object
StructuredLines(text) ==
    LET lines(data) ==
            IF /\ data.ok
               /\ data.value.type = "dict"
               /\ HasKey(data.value, <<"script">>)
               /\ GetItem(data.value, <<"script">>).type = "list"
               /\ parse_manzai_script(data.value).ok
            THEN parse_manzai_script(data.value).value
            ELSE <<>>
    IN  lines(json_loads(text))

\* the four strategies in their order: the tagged fenced block, the span from
\* the first "{" to the last "}", the whole text, the lines of the text
StrategyYields(text) ==
    LET tagged(parts) ==
            IF Len(parts) = 2 /\ Contains(parts[2], <<FENCE>>)
            THEN StructuredLines(Strip(SplitOnce(parts[2], <<FENCE>>)[1]))
            ELSE <<>>
        span(start, end) ==
            IF start # 0 /\ start < end
            THEN StructuredLines(SubSeq(text, start, end))
            ELSE <<>>
    IN  << tagged(SplitOnce(text, <<FENCE, "json">>)),
           span(Find(text, <<"{">>), RFind(text, <<"}">>)),
           StructuredLines(text),
           ParseText(JStr(text)).value >>

\* the result of the first strategy that yields at least one line
FirstYield(yields) ==
    IF \A k \in 1..Len(yields) : yields[k] = <<>> THEN <<>>
    ELSE yields[CHOOSE k \in 1..Len(yields) :
                    /\ yields[k] # <<>>
                    /\ \A j \in 1..(k - 1) : yields[j] = <<>>]

\* C11: the strategies are tried in the order tagged fenced block, brace
\* span, whole text, lines; a strategy without a valid line hands over to
\* the next, and generate_manzai_script returns the script of the first
\* strategy that yields at least one valid line.
C11_FirstYieldingStrategyWins ==
    (Extracting /\ FirstYield(StrategyYields(genIn.post.value.s)) # <<>>) =>
        /\ gen.ok
        /\ gen.script = FirstYield(StrategyYields(genIn.post.value.s))

\* the lines of a text that have the form "<code>: <text>", as pairs of the
\* code and the trimmed text, in the order of the text
RECURSIVE FormedLines(_)
FormedLines(lines) ==
    LET formed(parts) ==
            IF Len(parts) = 2 /\ Strip(parts[1]) # <<>> /\ Strip(parts[2]) # <<>>
            THEN <<[code |-> Strip(parts[1]), text |-> Strip(parts[2])]>>
            ELSE <<>>
    IN  IF lines = <<>> THEN <<>>
        ELSE formed(SplitOnce(Head(lines), <<":">>)) \o FormedLines(Tail(lines))

\* the script holds one line per pair, in order, with the text of the pair
\* and, for the codes A and B, the role of the code
FollowsLines(script, pairs) ==
    /\ Len(script) = Len(pairs)
    /\ \A j \in 1..Len(pairs) :
          /\ script[j].text = pairs[j].text
          /\ pairs[j].code = <<"A">> => script[j].role = TSUKKOMI
          /\ pairs[j].code = <<"B">> => script[j].role = BOKE

\* the raw text holds no JSON
NoJson(text) ==
    /\ ~Contains(text, <<"{">>)
    /\ ~Contains(text, <<"[">>)
    /\ ~json_loads(text).ok

\* C12: given raw generation text with no JSON in it, the script holds every
\* non-empty line of the form "<code>: <text>", in the order of the text and
\* with the text trimmed ("A: hello\nB: world" gives tsukkomi/"hello", then
\* boke/"world").
C12_LineFallbackKeepsLines ==
    (/\ Extracting
     /\ NoJson(genIn.post.value.s)
     /\ FormedLines(Split(genIn.post.value.s, <<"\n">>)) # <<>>) =>
        /\ gen.ok
        /\ FollowsLines(gen.script,
                        FormedLines(Split(genIn.post.value.s, <<"\n">>)))

\* the call parsed lines of text: the block cut out of the response is a
\* JSON string without code fences, which _parse_manzai_script reads line
\* by line
LinesParsed ==
    LET parsed(block) ==
            /\ block.ok
            /\ json_loads(block.block).ok
            /\ json_loads(block.block).value.type = "str"
            /\ ~Contains(json_loads(block.block).value.s, <<FENCE>>)
    IN  Extracting /\ parsed(extract_json_block(genIn.post.value.s))

\* the text whose lines were parsed
ParsedText ==
    json_loads(extract_json_block(genIn.post.value.s).block).value.s

\* the pairs whose code is one of the two recognized codes
RECURSIVE Recognized(_)
Recognized(pairs) ==
    IF pairs = <<>> THEN <<>>
    ELSE (IF Head(pairs).code \in { <<"A">>, <<"B">> } THEN <<Head(pairs)>> ELSE <<>>)
         \o Recognized(Tail(pairs))

\* C13: line-oriented parsing maps the code A to tsukkomi and the code B to
\* boke; a line with any other code, or one that is not of the form
\* "<code>: <text>", is skipped and gives no line of the script.
C13_UnrecognizedCodesAreSkipped ==
    LinesParsed =>
        /\ gen.ok
        /\ FollowsLines(gen.script,
                        Recognized(FormedLines(Split(ParsedText, <<"\n">>))))

\* a structured object { script: [ {speaker, text}, ... ] } whose members
\* are all text
ValidObject(body) ==
    /\ body.type = "dict"
    /\ HasKey(body, <<"script">>)
    /\ GetItem(body, <<"script">>).type = "list"
    /\ \A i \in 1..Len(GetItem(body, <<"script">>).items) :
          LET item == GetItem(body, <<"script">>).items[i]
          IN  /\ item.type = "dict"
              /\ HasKey(item, <<"speaker">>) /\ GetItem(item, <<"speaker">>).type = "str"
              /\ HasKey(item, <<"text">>) /\ GetItem(item, <<"text">>).type = "str"

\* C14: for every valid structured object, generating from the object
\* wrapped in a fenced block tagged json gives the same script (lines, roles
\* and order) as parsing the bare object.
C14_FencingMakesNoDifference ==
    \A body \in JsonBodies :
        (/\ Extracting
         /\ ValidObject(body)
         /\ genIn.post.value.s = Fenced(Render(body))) =>
            /\ gen.ok = parse_manzai_script(body).ok
            /\ gen.ok => gen.script = parse_manzai_script(body).value

\* C15: for a topic that is empty or only whitespace generate_manzai_script
\* raises the validation error (ValueError) and has sent no request to the
\* backend, neither a probe nor the generation request.
C15_BlankTopicIsRejectedFirst ==
    (gen.op = "generate_manzai_script" /\ Strip(genIn.topic) = <<>>) =>
        /\ ~gen.ok
        /\ gen.error = "ValueError"
        /\ gen.requests = <<>>

\* the first endpoint of a probe that answers with a list of model
\* descriptors, 0 when none does
FirstValid(probe) ==
    IF \A i \in 1..Len(Endpoints) : probe[i].kind # "models" THEN 0
    ELSE CHOOSE i \in 1..Len(Endpoints) :
            /\ probe[i].kind = "models"
            /\ \A j \in 1..(i - 1) : probe[j].kind # "models"

\* the error of the latest endpoint whose request failed; the fixed message
\* when every endpoint answered, none with a list of models
LastRecorded(probe) ==
    LET failed == { i \in 1..Len(Endpoints) :
                        probe[i].kind \notin { "models", "no_models" } }
    IN  IF failed = {} THEN [endpoint |-> "", cause |-> "All endpoints failed"]
        ELSE LET i == CHOOSE i \in failed : \A j \in failed : j <= i
             IN  [endpoint |-> Endpoints[i], cause |-> probe[i].kind]

\* the error the last endpoint of the list answered with
LastTried(probe) ==
    [endpoint |-> Endpoints[Len(Endpoints)], cause |-> probe[Len(Endpoints)].kind]

\* the health check of a call with a topic: the endpoints are asked in order
\* up to the first that answers with a list of models, whose names decide
\* whether the model is available; when none does, the call fails as
\* unavailable, having asked every endpoint, and carries the given error
ProbeDecides(carried) ==
    (gen.op = "generate_manzai_script" /\ genIn.topic # <<>>) =>
        LET k == FirstValid(genIn.probe1)
        IN  IF k # 0
            THEN /\ Len(gen.requests) >= k
                 /\ SubSeq(gen.requests, 1, k) = GetRequests(k)
                 /\ Len(gen.requests) > k => gen.requests[k + 1] = GetRequests(1)[1]
                 /\ ~Lists(genIn.probe1[k].names, genIn.model_name)
                        <=> (/\ ~gen.ok
                             /\ gen.message = "model not available"
                             /\ Len(gen.requests) = k)
            ELSE /\ ~gen.ok
                 /\ gen.error = "OllamaServiceError"
                 /\ gen.message = "server not available"
                 /\ gen.requests = GetRequests(Len(Endpoints))
                 /\ gen.carried = carried

\* C16 as stated: the probe asks its endpoints in order, the first answer
\* with a list of model descriptors decides the model list and no later
\* endpoint is asked; when no endpoint answers so, generate_manzai_script
\* fails as unavailable carrying the error of the last endpoint tried.
C16_CarriesErrorOfLastEndpoint == ProbeDecides(LastTried(genIn.probe1))

\* C16, amended: as above, but the error carried is the last one recorded,
\* that of the latest endpoint whose request failed (an endpoint answering
\* without a list of models records none), or "All endpoints failed" when no
\* request failed.
C16_CarriesLastRecordedError == ProbeDecides(LastRecorded(genIn.probe1))

\* the first endpoint timed out, the last answered without a list of models
C16_Witness ==
    /\ gen.op = "generate_manzai_script"
    /\ genIn.topic # <<>>
    /\ genIn.probe1[1].kind = "timeout"
    /\ genIn.probe1[2].kind = "no_models"
    /\ gen.requests = GetRequests(2)
    /\ gen.carried = [endpoint |-> "api/tags", cause |-> "timeout"]

\* a probe answered with a list of models that does not name the model
Unlisted(probe) ==
    /\ FirstValid(probe) # 0
    /\ ~Lists(probe[FirstValid(probe)].names, genIn.model_name)

\* the call got as far as the probe of generate_text_sync
SecondProbeRan ==
    /\ FirstValid(genIn.probe1) # 0
    /\ ~Unlisted(genIn.probe1)
    /\ genIn.template = "prompt"

\* C17: when the model is not among the names a probe returned,
\* generate_manzai_script fails as "model not available" and no generation
\* request is sent; a generation request carries exactly the requested model.
C17_UnlistedModelIsNeverAsked ==
    (gen.op = "generate_manzai_script" /\ genIn.topic # <<>>) =>
        /\ (Unlisted(genIn.probe1) \/ (SecondProbeRan /\ Unlisted(genIn.probe2))) =>
              /\ ~gen.ok
              /\ gen.message = "model not available"
              /\ \A i \in 1..Len(gen.requests) : gen.requests[i].method # "POST"
        /\ \A i \in 1..Len(gen.requests) :
              gen.requests[i].method = "POST" =>
                  /\ gen.requests[i].model = genIn.model_name
                  /\ i = Len(gen.requests)

\* the probe lists m1 only and m2 is asked for
C17_Witness ==
    /\ gen.op = "generate_manzai_script"
    /\ genIn.topic # <<>>
    /\ genIn.model_name = "m2"
    /\ genIn.probe1[1] = EndpointAnswer("models", <<"m1">>)
    /\ gen.message = "model not available"
    /\ gen.requests = GetRequests(1)

\* C23: get_fallback_response succeeds for every topic without a request to
\* the backend and returns exactly two lines, tsukkomi then boke, the first
\* containing the topic; the script is made of the fixed sentences and the
\* topic alone, whatever the backend answered to a generation before, and a
\* repeated call returns the same script.
C23_FallbackScriptIsFixed ==
    [][gen'.op = "get_fallback_response" =>
          /\ gen'.ok
          /\ gen'.requests = <<>>
          /\ Len(gen'.script) = 2
          /\ gen'.script[1].role = TSUKKOMI
          /\ gen'.script[2].role = BOKE
          /\ Contains(gen'.script[1].text, genIn.topic)
          /\ gen'.script[1].text
                = <<"<sorry>">> \o genIn.topic \o <<"<not generated>">>
          /\ gen'.script[2].text = <<"<try later>">>
          /\ gen.op = "get_fallback_response" => gen'.script = gen.script
          /\ files' = files]_vars

\* the fallback script of the topic "h", asked for after a generation that
\* had failed
C23_Witness ==
    /\ gen.op = "get_fallback_response"
    /\ genIn.topic = <<"h">>
    /\ genIn.post.kind = "timeout"
    /\ Len(gen.script) = 2
    /\ Contains(gen.script[1].text, <<"h">>)

\* C28: check_ollama_availability returns a status whatever the endpoints
\* answer (connection error, timeout, HTTP error, invalid JSON, a model list
\* with a malformed entry); a status with available = TRUE has no error and
\* the names listed by the first endpoint with a valid answer, and a status
\* with available = FALSE has an error and an empty model list.
C28_StatusIsConsistent ==
    gen.op = "check_ollama_availability" =>
        LET status == gen.status
            valid == { i \in 1..Len(Endpoints) : genIn.probe1[i].kind = "models" }
        IN  /\ gen.ok
            /\ status.available <=> valid # {}
            /\ status.available =>
                  /\ status.error = NoError
                  /\ \E i \in valid :
                        /\ \A j \in valid : i <= j
                        /\ status.models = genIn.probe1[i].names
            /\ ~status.available =>
                  /\ status.error # NoError
                  /\ status.models = <<>>

\* both endpoints answered 200 without a usable model list: one with a
\* malformed entry, one with no list at all
C28_Witness ==
    /\ gen.op = "check_ollama_availability"
    /\ genIn.probe1[1].kind = "bad_entry"
    /\ genIn.probe1[2].kind = "no_models"
    /\ ~gen.status.available
    /\ gen.status.error.cause = "bad_entry"

-----------------------------------------------------------------------------
(* Claims about the /api/generate handler, checked under SpecRun *)

\* the synthesis of a line of this request has failed
SynthesisFailed(r) == r.pc # "idle" /\ r.raised.stage = "synthesize_voice"

\* the request was answered with the entries built for a generated script
Succeeded(r) == r.pc = "done" /\ r.response.status = 200 /\ r.response.kind = "script"

\* C2: if the synthesis of script line i fails, the request ends with that
\* error: it is answered 500 with the exception that was raised, synthesis has
\* been asked for the lines 0..i only, one call per line in script order, and
\* the answer carries no entry of the lines done before.
C2_AbortOnFirstSynthesisFailure ==
    \A id \in RunIds :
        SynthesisFailed(runs[id]) =>
            /\ runs[id].pc = "done"
            /\ runs[id].response.status = 500
            /\ runs[id].response.cause.error = runs[id].raised.error
            /\ runs[id].response.script = <<>>
            /\ Len(runs[id].calls) = runs[id].raised.at + 1
            /\ \A k \in 1..Len(runs[id].calls) :
                    runs[id].calls[k] = LineCall(runs[id].script_lines[k])

\* the second of three lines failed after the first had been synthesized and stored
C2_Witness ==
    \E id \in RunIds :
        /\ SynthesisFailed(runs[id])
        /\ runs[id].pc = "done"
        /\ runs[id].raised.at = 1
        /\ Len(runs[id].script_lines) = 3
        /\ Len(runs[id].script_dict) = 1
        /\ Len(runs[id].calls) = 2

BackendUnavailable == { "server not available", "connection", "timeout", "http_error" }
ParseFailed == { "no JSON block", "JSON parse", "Script not found" }

\* the request asked for the backend's script and the generation failed:
\* what the handler answered with, and which calls it made
GenerationFailed(r) ==
    /\ r.pc = "done"
    /\ r.request.has_topic
    /\ Strip(r.request.topic) # <<>>
    /\ ~r.request.use_mock
    /\ r.raised.stage = "generate_manzai_script"

\* C18: a request that does not select the mock script gets the error of a
\* failed script generation (backend unavailable, or no script in the
\* answer): status 500 with the cause, no mock or fallback script in its
\* place, and no synthesize_voice call.
C18_GenerationErrorIsPropagated ==
    \A id \in RunIds :
        /\ GenerationFailed(runs[id]) =>
              /\ runs[id].response.status = 500
              /\ runs[id].response.kind = "error"
              /\ runs[id].response.cause.message
                    \in BackendUnavailable \cup ParseFailed \cup { "model not available" }
              /\ runs[id].response.script = <<>>
              /\ runs[id].calls = <<>>
        /\ (runs[id].pc = "done" /\ runs[id].response.kind = "mock") =>
              runs[id].request.use_mock
        /\ (runs[id].pc = "done" /\ runs[id].response.status = 200
                                  /\ ~runs[id].request.use_mock) =>
              runs[id].raised = NoRaise

\* one request failed on a backend that is down, the other on an answer
\* without JSON
C18_Witness ==
    /\ GenerationFailed(runs["r1"])
    /\ runs["r1"].response.cause.message = "server not available"
    /\ runs["r1"].response.status = 500
    /\ GenerationFailed(runs["r2"])
    /\ runs["r2"].response.cause.message = "no JSON block"
    /\ runs["r2"].response.status = 500

\* C25: when the generation gave a script of one line or more and no
\* synthesize_voice call of the request failed (the engine answered every
\* audio_query and synthesis request), the request succeeds, and every entry
\* returned has a non-empty audio_file naming a stored file and a non-empty
\* timing sequence.
C25_AnsweredRunSucceeds ==
    \A id \in RunIds :
        (/\ runs[id].pc = "done"
         /\ runs[id].script_lines # <<>>
         /\ runs[id].raised.stage # "synthesize_voice") =>
            /\ Succeeded(runs[id])
            /\ Len(runs[id].response.script) = Len(runs[id].script_lines)
            /\ \A k \in 1..Len(runs[id].response.script) :
                  LET entry == runs[id].response.script[k]
                  IN  /\ entry.audio_file # <<>>
                      /\ entry.audio_file \in DOMAIN files
                      /\ "timing" \in DOMAIN entry
                      /\ entry.timing # <<>>

C29_FailedRunLeavesNoFile ==
    \A id \in RunIds :
        (/\ runs[id].pc = "done"
         /\ runs[id].raised.stage \in { "synthesize_voice", "save_audio" }
         /\ \A other \in RunIds \ { id } : runs[other].pc = "idle") =>
            DOMAIN files = {}

-----------------------------------------------------------------------------
(* Claims about calls against a silent engine, checked under SpecCall *)

\* C21: every call that sends requests to a backend (generate_manzai_script,
\* get_timing_data, generate_voice, synthesize_voice, get_speakers) ends, by
\* returning or raising, even when the backend never answers.
C21_EveryCallEnds == <>(synth.pc \in { "returned", "raised" })

-----------------------------------------------------------------------------
(* Claims about concurrent cleanup_old_files calls, checked under SpecClean *)

\* C27: of two cleanup_old_files calls at work on the same directory neither
\* ends with an exception, and when both have returned, the counts they
\* returned add up to the number of files removed from the directory.
C27_ConcurrentCleanupsAgree ==
    /\ \A id \in RunIds : runs[id].pc = "done" => runs[id].raised = ""
    /\ (\A id \in RunIds : runs[id].pc = "done") =>
          runs["r1"].deleted_count + runs["r2"].deleted_count
              = Len(saved) - Cardinality(DOMAIN files)

====
